---- MODULE Spec2Model ----
(***************************************************************************)
(* Model of the BBC news ETL pipeline clients:                             *)
(*   - the checkpoint store (WorkGeneratorRepository on MongoDB),          *)
(*   - the RabbitMQ client (publish / consume with manual acknowledgment), *)
(*   - the document store (MongoBaseRepository.insert_data) and the        *)
(*     relational store (PostgreSQLOperation.insert_article),              *)
(*   - the Work Generator, Producer and Consumer services that drive them. *)
(* Dates are day numbers (ISO 'YYYY-MM-DD' strings order the same way);    *)
(* None is 0, below every date.                                            *)
(***************************************************************************)
EXTENDS Integers, Sequences, FiniteSets, TLC

\* ------------------------------------------------------------------ bounds
MaxDate == 3
MaxCalls == 3
MaxRuns == 3
MaxJobs == 1
MaxCrashes == 1
MaxAttempts == 2
MaxWrites == 3
MaxTasks == 2
MaxRetries == 4
MaxPublished == 2
MaxSiteAttempts == 4
MaxPages == 2
MaxScrapes == 2
MaxClients == 3

None == 0
\* find_one's result when the collection is empty (Python None)
NoDoc == [id |-> None, last_processed_date |-> None]
Dates == 1..MaxDate
Callers == {"w1", "w2"}

VARIABLES
    checkpoint,   \* WORK_CHECKPOINT collection: set of [id, last_processed_date]
    nextId,       \* source of fresh ObjectId() values
    cpc,          \* per caller: position inside update_last_checkpoint
    carg,         \* per caller: the last_processed_date argument
    cdoc,         \* per caller: last_doc returned by find_one (NoDoc or a row)
    advanced,     \* dates passed to update_last_checkpoint calls that returned
    jobQueue,     \* BBC_JOB_QUEUE on the broker: every message with its state
    today,        \* the calendar date
    wgPc,         \* Work Generator: position of the current invocation
    wgToday,      \* Work Generator: TODAYS_DATE as read by this invocation
    wgCursor,     \* Work Generator: cursor read at the start of the invocation
    wgNext,       \* Work Generator: next date to publish
    wgStartLen,   \* Work Generator: messages on the job queue when it started
    wgFailedAt,   \* Work Generator: date whose publish failed (None if none)
    wgRuns,       \* Work Generator: invocations started so far
    wgLost,       \* dates enqueued by the invocation that crashed last
    taskQueue,    \* BBC_TASK_QUEUE on the broker: every message with its state
    mongoData,    \* RAW_BBC_NEWS_COLLECTION: documents in insertion order
    pgTable,      \* BBC_NEWS_TABLE: rows, url UNIQUE
    failedJobs,   \* Failure Records of jobs
    failedTasks,  \* Failure Records of tasks
    ppc,          \* per Producer worker: position in its job handler
    pmsg,         \* per Producer worker: index of the job message it holds
    pitems,       \* per Producer worker: identifiers discovered for the job
    pidx,         \* per Producer worker: identifier being handled
    pexists,      \* per Producer worker: result of is_article_link_exists
    pattempts,    \* per Producer worker: failed discovery attempts
    conPc,        \* per Consumer worker: position in its task handler
    conMsg,       \* per Consumer worker: index of the task message it handles
    conInbox,     \* per Consumer worker: tasks delivered, not yet handed to the callback
    crashes,      \* worker crashes so far
    apiResult,    \* outcome of the last direct store call
    rop,          \* retried operation in progress ("none" when there is none)
    rmax,         \* its configured attempt ceiling (MAX_RETRIES, RETRIES, 5)
    rpc,          \* its position: idle, attempt, sleep, returned, raised
    rattempt,     \* attempts started so far
    rerrs,        \* the error of each failed attempt, in order
    rsleeps,      \* the waits slept so far, in order
    rresult,      \* what the call returned or raised
    rhost,        \* the configuration object has the attribute RABBITMQ_HOST
    rconnection,  \* RabbitMQClient.connection (none, open)
    rchannel,     \* RabbitMQClient.channel (none, open)
    boot,         \* starting component: down, connecting, running, aborted, stopped
    bootComp,     \* which component is starting
    bootSnap,     \* the persisted state when the component started
    bootLeft,     \* the client connections it has still to establish
    bootResults,  \* what each connect call that returned gave it
    ccPc,         \* connection_cursor: position
    ccConn,       \* connection_cursor: conn (none, open, closed)
    ccCursor,     \* connection_cursor: cursor (none, open, closed)
    ccConnCloses, \* connection_cursor: calls of conn.close()
    ccCursorCloses, \* connection_cursor: calls of cursor.close()
    ccTx,         \* connection_cursor: rows inserted in the open transaction
    ccRaised,     \* connection_cursor: the with statement ends with an exception
    ccCommits,    \* connection_cursor: calls of conn.commit()
    ccRollbacks,  \* connection_cursor: calls of conn.rollback()
    ccBody,       \* connection_cursor: how the body of the with statement ended
    ccExc,        \* connection_cursor: the calls that raised, in order; the last one's exception leaves
    ccSnap,       \* the table's rows when the with statement was entered
    iaPc,         \* insert_article: idle, called, returned, CustomException
    iaArg,        \* insert_article: its article_data
    pubQueue,     \* publish: the queue the calls publish to
    pubBefore,    \* publish: that queue when the last call was made
    pubMsg,       \* publish: the message argument of the last call
    pubResult,    \* publish: none, returned, CustomException
    mcClient,     \* per Mongo wrapper: its client attribute (none, handle)
    mcCollection, \* per Mongo wrapper: its cached collection (none, handle)
    mcServer,     \* per Mongo wrapper: the MongoClient it created (none, open, closed)
    mcCall,       \* per Mongo wrapper: the last method called on it
    mcResult,     \* per Mongo wrapper: how that call ended
    lastRead,     \* get_last_checkpoint: the collection it last read and what it returned
    failedRead,   \* get_failed_jobs: the Failure Records at its last call and how it ended
    osPc,         \* open_site: position of the call
    osRetries,    \* open_site: self.config.RETRY_ATTEMPTS
    osAttempt,    \* open_site: the loop variable attempt
    osDriver,     \* open_site: the driver in hand, 0 the one passed in, n the n-th fresh one
    osLoaded,     \* open_site: drivers whose get(target_url) returned
    osFailures,   \* open_site: consecutive WebDriverException failures of get
    osLog,        \* open_site: levels of the records logged by the call
    osResult,     \* open_site: what the call returned or raised
    osQuits,      \* open_site: the drivers it called quit() on, in order
    scrPc,        \* run_archive_scraper_selenium_bot: position of the call
    scrPhase,     \* "archive": the page count is read, "links": get_article_links runs
    scrPage,      \* get_article_links: the loop variable page
    scrPages,     \* total_pages
    scrBlock,     \* number of selenium_session blocks the call has entered
    scrExc,       \* the exception on its way out of the current with-block
    scrStarted,   \* WebDriver sessions started during the call: <<block, driver>>
    scrQuits,     \* the sessions quit() was called on during the call, in order
    scrDelayed,   \* a random_delay was taken since the last page load
    scrLoads,     \* per open_site call of the scraper so far: the value of scrDelayed
    scrCalls,     \* calls of run_archive_scraper_selenium_bot made
    scrResult,    \* what the call returned or raised
    rcPc,         \* RabbitMQClient: position of the running consume or close call
    rcVia,        \* the call that runs: "consume", "close" or "exit" (leaving a with-block)
    rcCause,      \* consume: what stopped start_consuming
    rcChannel,    \* self.channel.is_open: "open" or "closed"
    rcConnection, \* self.connection.is_open: "open" or "closed"
    rcCloseCalls, \* calls of self.close() made during the running call
    rcResult,     \* how the call ended
    rcClients,    \* clients constructed so far
    mcOp          \* the last data operation called on a Mongo wrapper and how it went

storeVars == <<checkpoint, nextId>>
callerVars == <<cpc, carg, cdoc, advanced>>
wgVars == <<today, wgPc, wgToday, wgCursor, wgNext, wgStartLen, wgFailedAt, wgRuns, wgLost>>
brokerVars == <<jobQueue>>
prodVars == <<ppc, pmsg, pitems, pidx, pexists, pattempts>>
consVars == <<conPc, conMsg, conInbox>>
recordVars == <<mongoData, pgTable, failedJobs, failedTasks>>
pipeVars == <<taskQueue, prodVars, consVars, recordVars, crashes, apiResult>>
retryVars == <<rop, rmax, rpc, rattempt, rerrs, rsleeps, rresult, rhost, rconnection, rchannel>>
bootVars == <<boot, bootComp, bootSnap, bootLeft, bootResults>>
cursorVars == <<ccPc, ccConn, ccCursor, ccConnCloses, ccCursorCloses, ccTx, ccRaised,
                ccCommits, ccRollbacks, ccBody, ccExc, ccSnap, iaPc, iaArg>>
clientVars == <<retryVars, bootVars, cursorVars>>
pubVars == <<pubQueue, pubBefore, pubMsg, pubResult>>
mcVars == <<mcClient, mcCollection, mcServer, mcCall, mcResult>>
readVars == <<lastRead>>
failedVars == <<failedRead>>
siteVars == <<osPc, osRetries, osAttempt, osDriver, osLoaded, osFailures, osLog, osResult, osQuits>>
scrVars == <<scrPc, scrPhase, scrPage, scrPages, scrBlock, scrExc, scrStarted, scrQuits,
             scrDelayed, scrLoads, scrCalls, scrResult>>
rcVars == <<rcPc, rcVia, rcCause, rcChannel, rcConnection, rcCloseCalls, rcResult, rcClients>>
opVars == <<mcOp>>
callVars == <<pubVars, mcVars, readVars, failedVars, siteVars, scrVars, rcVars, opVars>>
vars == <<storeVars, callerVars, wgVars, brokerVars, pipeVars, clientVars, callVars>>

\* ------------------------------------------------------- checkpoint store
SetMax(S) == CHOOSE x \in S : \A y \in S : y <= x

\* collection.find_one(sort=[("last_processed_date", -1)]): the rows find_one
\* may return (any row holding the greatest date); empty when no row exists.
LatestDocs(coll) ==
    {r \in coll : \A q \in coll : q.last_processed_date <= r.last_processed_date}

\* find_one returning no row
get_last_checkpoint_none(coll) == None

\* find_one sorting in ascending order
get_last_checkpoint_oldest(coll) ==
    IF coll = {} THEN None
    ELSE CHOOSE x \in {r.last_processed_date : r \in coll} :
             \A r \in coll : x <= r.last_processed_date

\* get_last_checkpoint: the date of the latest row, None when there is none.
get_last_checkpoint(coll) ==
    IF coll = {} THEN None
    ELSE SetMax({r.last_processed_date : r \in coll})

\* Faulty update_one: the filter matches no row and nothing is written.
update_one_lost(coll, id, date) == coll

\* collection.update_one({"_id": id}, {"$set": ...}, upsert=True)
update_one(coll, id, date) ==
    IF \E r \in coll : r.id = id
    THEN {IF r.id = id THEN [r EXCEPT !.last_processed_date = date] ELSE r : r \in coll}
    ELSE coll \cup {[id |-> id, last_processed_date |-> date]}

\* collection.insert_one({"_id": ObjectId(), ...})
insert_one(coll, id, date) ==
    coll \cup {[id |-> id, last_processed_date |-> date]}

\* The write half of update_last_checkpoint, given the row find_one returned.
checkpoint_write(coll, last_doc, id, date) ==
    IF last_doc # NoDoc
    THEN update_one(coll, last_doc.id, date)
    ELSE insert_one(coll, id, date)

\* update_last_checkpoint run without any other writer in between.
update_last_checkpoint(coll, id, date) ==
    LET docs == LatestDocs(coll)
        last_doc == IF docs = {} THEN NoDoc ELSE CHOOSE r \in docs : TRUE
    IN checkpoint_write(coll, last_doc, id, date)

\* list(collection.find().sort("date", 1)): the rows in ascending order of
\* their "date"; rows without the field keep an order of the server's choice.
RECURSIVE SortedByDate(_)
SortedByDate(rows) ==
    IF rows = {} THEN <<>>
    ELSE LET first == CHOOSE r \in rows :
                         \A q \in rows :
                             ("date" \in DOMAIN r /\ "date" \in DOMAIN q) => r.date <= q.date
         IN <<first>> \o SortedByDate(rows \ {first})

\* get_failed_jobs on the collection it reads:
\*   result = list(collection.find().sort("date", 1))
\*   if result: return [job["date"] for job in result]  else: return None
\* job["date"] raises KeyError on a row without the field, and the except
\* clause raises CustomException.
get_failed_jobs(coll) ==
    LET result == SortedByDate(coll)
    IN IF result = <<>> THEN [result |-> "None", dates |-> <<>>]
       ELSE IF \E i \in 1..Len(result) : "date" \notin DOMAIN result[i]
       THEN [result |-> "CustomException", dates |-> <<>>]
       ELSE [result |-> "returned", dates |-> [i \in 1..Len(result) |-> result[i].date]]

\* A caller calls get_failed_jobs(): the collection it reads is
\* self._get_collection(self.config.MONGODB_WORK_CHECKPOINT_NAME).
GetFailedJobs ==
    /\ failedRead' = [failed |-> failedJobs, checkpoint |-> checkpoint, calls |-> 1,
                      out |-> get_failed_jobs(checkpoint)]
    /\ UNCHANGED <<storeVars, callerVars, wgVars, brokerVars, pipeVars, clientVars>>
    /\ UNCHANGED <<pubVars, mcVars, readVars>>
    /\ UNCHANGED siteVars
    /\ UNCHANGED scrVars
    /\ UNCHANGED rcVars
    /\ UNCHANGED opVars

\* update_last_checkpoint(date) is called and returns, no other call overlapping.
AdvanceCursor(date) ==
    /\ checkpoint' = update_last_checkpoint(checkpoint, nextId, date)
    /\ nextId' = IF checkpoint = {} THEN nextId + 1 ELSE nextId
    /\ UNCHANGED <<callerVars, wgVars, brokerVars, pipeVars, clientVars, callVars>>

InitFailedRead ==
    failedRead = [failed |-> <<>>, checkpoint |-> {}, calls |-> 0,
                  out |-> [result |-> "None", dates |-> <<>>]]

(***************************************************************************)
(* SeleniumBot.open_site: driver.get(target_url) in a loop of              *)
(* RETRY_ATTEMPTS attempts, a fresh driver after each WebDriverException.  *)
(***************************************************************************)
SiteAttempts == 1..MaxSiteAttempts

\* What driver.get(target_url) does: returns, raises WebDriverException, or
\* raises an exception of another class.
GetOutcomes == {"ok", "WebDriverException", "Exception"}

\* What self._init_driver() does: returns a driver, raises CustomException
\* (no session after its own retries) or lets another WebDriverException out.
InitDriverOutcomes == {"ok", "CustomException", "WebDriverException"}

\* The else branch of "if attempt < RETRY_ATTEMPTS - 1": logging.critical and
\* no raise statement (both are commented out); the loop ends and the function
\* falls off its end, which returns None.
last_attempt_failed == [pc |-> "returned", result |-> "None"]

\* The except WebDriverException clause of one attempt.
except_WebDriverException(attempt, retries) ==
    IF attempt < retries - 1
    THEN [pc |-> "quit", result |-> "none"]
    ELSE last_attempt_failed

\* A caller calls open_site(driver, target_url).
OpenSite(retries) ==
    /\ osPc \in {"idle", "returned", "raised"}
    /\ osPc' = "get"
    /\ osRetries' = retries
    /\ osAttempt' = 0
    /\ osDriver' = 0
    /\ osLoaded' = {}
    /\ osFailures' = 0
    /\ osLog' = <<>>
    /\ osResult' = "none"
    /\ osQuits' = <<>>
    /\ UNCHANGED <<storeVars, callerVars, wgVars, brokerVars, pipeVars, clientVars>>
    /\ UNCHANGED <<pubVars, mcVars, readVars, failedVars>>
    /\ UNCHANGED scrVars
    /\ UNCHANGED rcVars
    /\ UNCHANGED opVars

\* try: driver.get(target_url); return driver
\* except WebDriverException: logging.error, then retry or give up.
OsGet(outcome) ==
    /\ osPc = "get"
    /\ IF outcome = "ok"
       THEN /\ osLoaded' = osLoaded \cup {osDriver}
            /\ osLog' = Append(osLog, "info")
            /\ osPc' = "returned"
            /\ osResult' = "driver"
            /\ UNCHANGED osFailures
       ELSE IF outcome = "WebDriverException"
       THEN LET next == except_WebDriverException(osAttempt, osRetries)
            IN /\ osFailures' = osFailures + 1
               /\ osLog' = osLog \o (IF next.pc = "quit" THEN <<"error", "info">>
                                                        ELSE <<"error", "critical">>)
               /\ osPc' = next.pc
               /\ osResult' = next.result
               /\ UNCHANGED osLoaded
       ELSE /\ osPc' = "raised"
            /\ osResult' = outcome
            /\ UNCHANGED <<osLoaded, osFailures, osLog>>
    /\ UNCHANGED <<osRetries, osAttempt, osDriver, osQuits>>
    /\ UNCHANGED <<storeVars, callerVars, wgVars, brokerVars, pipeVars, clientVars>>
    /\ UNCHANGED <<pubVars, mcVars, readVars, failedVars>>
    /\ UNCHANGED scrVars
    /\ UNCHANGED rcVars
    /\ UNCHANGED opVars

\* try: driver.quit()  except Exception: logging.error
OsQuit(ok) ==
    /\ osPc = "quit"
    /\ osLog' = IF ok THEN osLog ELSE Append(osLog, "error")
    /\ osQuits' = Append(osQuits, osDriver)
    /\ osPc' = "init"
    /\ UNCHANGED <<osRetries, osAttempt, osDriver, osLoaded, osFailures, osResult>>
    /\ UNCHANGED <<storeVars, callerVars, wgVars, brokerVars, pipeVars, clientVars>>
    /\ UNCHANGED <<pubVars, mcVars, readVars, failedVars>>
    /\ UNCHANGED scrVars
    /\ UNCHANGED rcVars
    /\ UNCHANGED opVars

\* driver = self._init_driver(); time.sleep(3); the next iteration of the loop.
\* The call stands in the except clause, so what it raises leaves open_site.
OsInitDriver(outcome) ==
    /\ osPc = "init"
    /\ IF outcome = "ok"
       THEN /\ osDriver' = osDriver + 1
            /\ osAttempt' = osAttempt + 1
            /\ osPc' = "get"
            /\ UNCHANGED osResult
       ELSE /\ osPc' = "raised"
            /\ osResult' = outcome
            /\ UNCHANGED <<osDriver, osAttempt>>
    /\ UNCHANGED <<osRetries, osLoaded, osFailures, osLog, osQuits>>
    /\ UNCHANGED <<storeVars, callerVars, wgVars, brokerVars, pipeVars, clientVars>>
    /\ UNCHANGED <<pubVars, mcVars, readVars, failedVars>>
    /\ UNCHANGED scrVars
    /\ UNCHANGED rcVars
    /\ UNCHANGED opVars

InitSite ==
    /\ osPc = "idle"
    /\ osRetries = 1
    /\ osAttempt = 0
    /\ osDriver = 0
    /\ osLoaded = {}
    /\ osFailures = 0
    /\ osLog = <<>>
    /\ osResult = "none"
    /\ osQuits = <<>>

(***************************************************************************)
(* SeleniumBot.run_archive_scraper_selenium_bot and get_article_links:     *)
(* one selenium_session block for the page count, then one block per page. *)
(***************************************************************************)
MIN_HUMAN_DELAY == 1
MAX_HUMAN_DELAY == 5

\* random.uniform(min_seconds, max_seconds), in whole seconds
random_delay(min_seconds, max_seconds) == min_seconds..max_seconds

\* get_article_links is called with total_pages when it is above 1, else with 1.
total_pagination_pages(total_pages) == IF total_pages > 1 THEN total_pages ELSE 1

\* What the rest of a with-block body does with the value of open_site:
\* handle_popup and the page parsing raise on None, and may raise on a driver.
body_after_open(result, raised, page_ok) ==
    IF raised THEN result
    ELSE IF result = "None" THEN "SeleniumException"
    ELSE IF page_ok THEN "none"
    ELSE "SeleniumException"

\* A caller calls run_archive_scraper_selenium_bot(str_date).
ScrCall(retries) ==
    /\ scrPc \in {"idle", "returned", "raised"}
    /\ scrCalls < MaxScrapes
    /\ scrCalls' = scrCalls + 1
    /\ scrPc' = "enter"
    /\ scrPhase' = "archive"
    /\ scrPage' = 1
    /\ scrPages' = 0
    /\ scrBlock' = 0
    /\ scrExc' = "none"
    /\ scrStarted' = {}
    /\ scrQuits' = <<>>
    /\ scrResult' = "none"
    /\ osRetries' = retries
    /\ osPc' = "idle"
    /\ osAttempt' = 0
    /\ osDriver' = 0
    /\ osLoaded' = {}
    /\ osFailures' = 0
    /\ osLog' = <<>>
    /\ osResult' = "none"
    /\ osQuits' = <<>>
    /\ UNCHANGED <<scrDelayed, scrLoads>>
    /\ UNCHANGED <<storeVars, callerVars, wgVars, brokerVars, pipeVars, clientVars>>
    /\ UNCHANGED <<pubVars, mcVars, readVars, failedVars>>
    /\ UNCHANGED rcVars
    /\ UNCHANGED opVars

\* with self.selenium_session() as driver: driver = self._init_driver(); yield.
\* When _init_driver raises, driver is None, nothing is quit, and the except
\* clauses of the callers raise CustomException.
ScrEnter(outcome) ==
    /\ scrPc = "enter"
    /\ IF outcome = "ok"
       THEN /\ scrBlock' = scrBlock + 1
            /\ scrStarted' = scrStarted \cup {<<scrBlock + 1, 0>>}
            /\ scrPc' = IF scrPhase = "links" THEN "delay" ELSE "open"
            /\ UNCHANGED scrResult
       ELSE /\ scrPc' = "raised"
            /\ scrResult' = "CustomException"
            /\ UNCHANGED <<scrBlock, scrStarted>>
    /\ UNCHANGED <<scrPhase, scrPage, scrPages, scrExc, scrQuits, scrDelayed, scrLoads, scrCalls>>
    /\ UNCHANGED <<storeVars, callerVars, wgVars, brokerVars, pipeVars, clientVars>>
    /\ UNCHANGED <<pubVars, mcVars, readVars, failedVars, siteVars>>
    /\ UNCHANGED rcVars
    /\ UNCHANGED opVars

\* self.random_delay(MIN_HUMAN_DELAY, MAX_HUMAN_DELAY), in get_article_links only
ScrDelay(delay) ==
    /\ scrPc = "delay"
    /\ scrDelayed' = (delay > 0)
    /\ scrPc' = "open"
    /\ UNCHANGED <<scrPhase, scrPage, scrPages, scrBlock, scrExc, scrStarted, scrQuits,
                   scrLoads, scrCalls, scrResult>>
    /\ UNCHANGED <<storeVars, callerVars, wgVars, brokerVars, pipeVars, clientVars>>
    /\ UNCHANGED <<pubVars, mcVars, readVars, failedVars, siteVars>>
    /\ UNCHANGED rcVars
    /\ UNCHANGED opVars

\* driver = self.open_site(driver, target_url): the call begins.
ScrOpen ==
    /\ scrPc = "open"
    /\ scrLoads' = Append(scrLoads, scrDelayed)
    /\ scrDelayed' = FALSE
    /\ scrPc' = "opening"
    /\ osPc' = "get"
    /\ osAttempt' = 0
    /\ osDriver' = 0
    /\ osLoaded' = {}
    /\ osFailures' = 0
    /\ osLog' = <<>>
    /\ osResult' = "none"
    /\ osQuits' = <<>>
    /\ UNCHANGED osRetries
    /\ UNCHANGED <<scrPhase, scrPage, scrPages, scrBlock, scrExc, scrStarted, scrQuits,
                   scrCalls, scrResult>>
    /\ UNCHANGED <<storeVars, callerVars, wgVars, brokerVars, pipeVars, clientVars>>
    /\ UNCHANGED <<pubVars, mcVars, readVars, failedVars>>
    /\ UNCHANGED rcVars
    /\ UNCHANGED opVars

\* open_site has returned or raised; the rest of the with-block body runs
\* (handle_popup, then the page count or the links of the page). The local
\* name driver of the caller now holds the value of open_site; the name driver
\* inside selenium_session still holds the session it started.
ScrOpened(page_ok, total_pages) ==
    /\ scrPc = "opening"
    /\ osPc \in {"returned", "raised"}
    /\ scrStarted' = scrStarted \cup {<<scrBlock, n>> : n \in 1..osDriver}
    /\ scrQuits' = scrQuits \o [i \in 1..Len(osQuits) |-> <<scrBlock, osQuits[i]>>]
    /\ scrExc' = body_after_open(osResult, osPc = "raised", page_ok)
    /\ scrPages' = IF scrPhase = "archive" /\ scrExc' = "none" THEN total_pages ELSE scrPages
    /\ scrPc' = "exit"
    /\ UNCHANGED <<scrPhase, scrPage, scrBlock, scrDelayed, scrLoads, scrCalls, scrResult>>
    /\ UNCHANGED <<storeVars, callerVars, wgVars, brokerVars, pipeVars, clientVars>>
    /\ UNCHANGED <<pubVars, mcVars, readVars, failedVars, siteVars>>
    /\ UNCHANGED rcVars
    /\ UNCHANGED opVars

\* The finally clause of selenium_session: driver.quit() on the session the
\* block started; then the next block, or the end of the call. An exception
\* leaving a block ends the call in CustomException.
ScrExit(quit_ok) ==
    /\ scrPc = "exit"
    /\ scrQuits' = Append(scrQuits, <<scrBlock, 0>>)
    /\ scrExc' = IF quit_ok THEN scrExc ELSE "WebDriverException"
    /\ IF scrExc' # "none"
       THEN /\ scrPc' = "raised"
            /\ scrResult' = "CustomException"
            /\ UNCHANGED <<scrPhase, scrPage, scrPages>>
       ELSE IF scrPhase = "archive"
       THEN /\ scrPhase' = "links"
            /\ scrPages' = total_pagination_pages(scrPages)
            /\ scrPage' = 1
            /\ scrPc' = "enter"
            /\ UNCHANGED scrResult
       ELSE IF scrPage < scrPages
       THEN /\ scrPage' = scrPage + 1
            /\ scrPc' = "enter"
            /\ UNCHANGED <<scrPhase, scrPages, scrResult>>
       ELSE /\ scrPc' = "returned"
            /\ scrResult' = "links_list"
            /\ UNCHANGED <<scrPhase, scrPage, scrPages>>
    /\ UNCHANGED <<scrBlock, scrStarted, scrDelayed, scrLoads, scrCalls>>
    /\ UNCHANGED <<storeVars, callerVars, wgVars, brokerVars, pipeVars, clientVars>>
    /\ UNCHANGED <<pubVars, mcVars, readVars, failedVars, siteVars>>
    /\ UNCHANGED rcVars
    /\ UNCHANGED opVars

InitScraper ==
    /\ scrPc = "idle"
    /\ scrPhase = "archive"
    /\ scrPage = 1
    /\ scrPages = 0
    /\ scrBlock = 0
    /\ scrExc = "none"
    /\ scrStarted = {}
    /\ scrQuits = <<>>
    /\ scrDelayed = FALSE
    /\ scrLoads = <<>>
    /\ scrCalls = 0
    /\ scrResult = "none"

(***************************************************************************)
(* RabbitMQClient.consume, close and __exit__ on a constructed client.     *)
(***************************************************************************)
\* What ends channel.start_consuming(), or a call before it.
StopCauses == {"KeyboardInterrupt", "ChannelClosedByBroker", "StreamLostError", "Exception"}

\* is_open of the channel and of the connection once the cause has happened.
handles_after(cause, channel, connection) ==
    IF cause = "ChannelClosedByBroker" THEN [channel |-> "closed", connection |-> connection]
    ELSE IF cause = "StreamLostError" THEN [channel |-> "closed", connection |-> "closed"]
    ELSE [channel |-> channel, connection |-> connection]

\* How the call ends once self.close() has returned or raised: close raises
\* CustomException; consume returns after KeyboardInterrupt and raises
\* CustomException in its other except clauses.
call_outcome(via, cause, close_raised) ==
    IF close_raised THEN "CustomException"
    ELSE IF via = "consume" /\ cause # "KeyboardInterrupt" THEN "CustomException"
    ELSE "returned"

\* A new client has been constructed: connection and channel are open.
RcNew ==
    /\ rcPc \in {"returned", "raised"}
    /\ rcClients < MaxClients
    /\ rcClients' = rcClients + 1
    /\ rcPc' = "idle"
    /\ rcVia' = "none"
    /\ rcCause' = "none"
    /\ rcChannel' = "open"
    /\ rcConnection' = "open"
    /\ rcCloseCalls' = 0
    /\ rcResult' = "none"
    /\ UNCHANGED <<storeVars, callerVars, wgVars, brokerVars, pipeVars, clientVars>>
    /\ UNCHANGED <<pubVars, mcVars, readVars, failedVars, siteVars, scrVars>>
    /\ UNCHANGED opVars

\* The calls of the try block of consume, in order.
ConsumeSteps == <<"basic_qos", "basic_consume", "start_consuming">>

\* consume(queue_name, callback) is called: the try block is entered.
RcConsume ==
    /\ rcPc = "idle"
    /\ rcPc' = ConsumeSteps[1]
    /\ rcVia' = "consume"
    /\ rcCause' = "none"
    /\ rcCloseCalls' = 0
    /\ rcResult' = "none"
    /\ UNCHANGED <<rcChannel, rcConnection, rcClients>>
    /\ UNCHANGED <<storeVars, callerVars, wgVars, brokerVars, pipeVars, clientVars>>
    /\ UNCHANGED <<pubVars, mcVars, readVars, failedVars, siteVars, scrVars>>
    /\ UNCHANGED opVars

\* basic_qos or basic_consume returns and the next call of the try block runs.
RcConsumeStep ==
    /\ \E i \in 1..(Len(ConsumeSteps) - 1) :
          /\ rcPc = ConsumeSteps[i]
          /\ rcPc' = ConsumeSteps[i + 1]
    /\ UNCHANGED <<rcVia, rcCause, rcChannel, rcConnection, rcCloseCalls, rcResult, rcClients>>
    /\ UNCHANGED <<storeVars, callerVars, wgVars, brokerVars, pipeVars, clientVars>>
    /\ UNCHANGED <<pubVars, mcVars, readVars, failedVars, siteVars, scrVars>>
    /\ UNCHANGED opVars

\* A call of the try block raises: one of the except clauses of consume is
\* entered, it logs and calls self.close().
RcStop(cause) ==
    /\ \E i \in 1..Len(ConsumeSteps) : rcPc = ConsumeSteps[i]
    /\ rcCause' = cause
    /\ LET h == handles_after(cause, rcChannel, rcConnection)
       IN /\ rcChannel' = h.channel
          /\ rcConnection' = h.connection
    /\ rcCloseCalls' = rcCloseCalls + 1
    /\ rcPc' = "close_channel"
    /\ UNCHANGED <<rcVia, rcResult, rcClients>>
    /\ UNCHANGED <<storeVars, callerVars, wgVars, brokerVars, pipeVars, clientVars>>
    /\ UNCHANGED <<pubVars, mcVars, readVars, failedVars, siteVars, scrVars>>
    /\ UNCHANGED opVars

\* client.close() is called directly, or __exit__ calls it on leaving a with-block.
RcCloseCall(via) ==
    /\ rcPc \in {"idle", "returned", "raised"}
    /\ rcVia' = via
    /\ rcCause' = "none"
    /\ rcCloseCalls' = 1
    /\ rcResult' = "none"
    /\ rcPc' = "close_channel"
    /\ UNCHANGED <<rcChannel, rcConnection, rcClients>>
    /\ UNCHANGED <<storeVars, callerVars, wgVars, brokerVars, pipeVars, clientVars>>
    /\ UNCHANGED <<pubVars, mcVars, readVars, failedVars, siteVars, scrVars>>
    /\ UNCHANGED opVars

\* close(): if self.channel and self.channel.is_open: self.channel.close()
\* When the call raises, the except clause raises CustomException and the
\* connection is not touched; the channel may or may not have been closed.
RcChannelClose(ok, closed) ==
    /\ rcPc = "close_channel"
    /\ IF rcChannel = "open" /\ ~ok
       THEN /\ rcChannel' = IF closed THEN "closed" ELSE "open"
            /\ rcResult' = call_outcome(rcVia, rcCause, TRUE)
            /\ rcPc' = "raised"
       ELSE /\ rcChannel' = "closed"
            /\ rcPc' = "close_connection"
            /\ UNCHANGED rcResult
    /\ UNCHANGED <<rcVia, rcCause, rcConnection, rcCloseCalls, rcClients>>
    /\ UNCHANGED <<storeVars, callerVars, wgVars, brokerVars, pipeVars, clientVars>>
    /\ UNCHANGED <<pubVars, mcVars, readVars, failedVars, siteVars, scrVars>>
    /\ UNCHANGED opVars

\* close(): if self.connection and self.connection.is_open: self.connection.close()
\* and the end of the call that ran close().
RcConnectionClose(ok, closed) ==
    /\ rcPc = "close_connection"
    /\ LET close_raised == rcConnection = "open" /\ ~ok
           result == call_outcome(rcVia, rcCause, close_raised)
       IN /\ rcConnection' = IF close_raised /\ ~closed THEN "open" ELSE "closed"
          /\ rcResult' = result
          /\ rcPc' = IF result = "returned" THEN "returned" ELSE "raised"
    /\ UNCHANGED <<rcVia, rcCause, rcChannel, rcCloseCalls, rcClients>>
    /\ UNCHANGED <<storeVars, callerVars, wgVars, brokerVars, pipeVars, clientVars>>
    /\ UNCHANGED <<pubVars, mcVars, readVars, failedVars, siteVars, scrVars>>
    /\ UNCHANGED opVars

InitRabbitClient ==
    /\ rcPc = "idle"
    /\ rcVia = "none"
    /\ rcCause = "none"
    /\ rcChannel = "open"
    /\ rcConnection = "open"
    /\ rcCloseCalls = 0
    /\ rcResult = "none"
    /\ rcClients = 1

\* No call of get_last_checkpoint has returned yet.
NoRead == [coll |-> {}, date |-> None, calls |-> 0]

\* A caller calls get_last_checkpoint() and it returns.
GetLastCheckpoint ==
    /\ lastRead' = [coll |-> checkpoint, date |-> get_last_checkpoint(checkpoint),
                    calls |-> 1]
    /\ UNCHANGED <<storeVars, callerVars, wgVars, brokerVars, pipeVars, clientVars>>
    /\ UNCHANGED <<pubVars, mcVars>>
    /\ UNCHANGED failedVars
    /\ UNCHANGED siteVars
    /\ UNCHANGED scrVars
    /\ UNCHANGED rcVars
    /\ UNCHANGED opVars

InitRead == lastRead = NoRead

\* ------------------------------------- overlapping update_last_checkpoint
CallsMade == Cardinality({w \in Callers : cpc[w] # "idle"}) + Len(advanced)

\* A caller enters update_last_checkpoint(d).
UpdateBegin(w) ==
    /\ cpc[w] = "idle"
    /\ CallsMade < MaxCalls
    /\ \E d \in Dates : carg' = [carg EXCEPT ![w] = d]
    /\ cpc' = [cpc EXCEPT ![w] = "find"]
    /\ UNCHANGED <<checkpoint, nextId, cdoc, advanced, wgVars, brokerVars, pipeVars, clientVars>>
    /\ UNCHANGED callVars

\* last_doc = collection.find_one(sort=[("last_processed_date", -1)])
UpdateFind(w) ==
    /\ cpc[w] = "find"
    /\ IF checkpoint = {}
       THEN cdoc' = [cdoc EXCEPT ![w] = NoDoc]
       ELSE \E r \in LatestDocs(checkpoint) : cdoc' = [cdoc EXCEPT ![w] = r]
    /\ cpc' = [cpc EXCEPT ![w] = "write"]
    /\ UNCHANGED <<checkpoint, nextId, carg, advanced, wgVars, brokerVars, pipeVars, clientVars>>
    /\ UNCHANGED callVars

\* update_one on the row read, or insert_one when none was read; then return.
UpdateWrite(w) ==
    /\ cpc[w] = "write"
    /\ checkpoint' = checkpoint_write(checkpoint, cdoc[w], nextId, carg[w])
    /\ nextId' = IF cdoc[w] = NoDoc THEN nextId + 1 ELSE nextId
    /\ advanced' = Append(advanced, carg[w])
    /\ cpc' = [cpc EXCEPT ![w] = "idle"]
    /\ cdoc' = [cdoc EXCEPT ![w] = NoDoc]
    /\ UNCHANGED <<carg, wgVars, brokerVars, pipeVars, clientVars>>
    /\ UNCHANGED callVars

InitStore ==
    /\ checkpoint = {}
    /\ nextId = 1

\* update_last_checkpoint(date) is called and returns with no other call in
\* flight, and get_last_checkpoint() is called right after it.
UpdateThenRead(date) ==
    /\ \A w \in Callers : cpc[w] = "idle"
    /\ CallsMade < MaxCalls
    /\ checkpoint' = update_last_checkpoint(checkpoint, nextId, date)
    /\ nextId' = IF checkpoint = {} THEN nextId + 1 ELSE nextId
    /\ advanced' = Append(advanced, date)
    /\ lastRead' = [coll |-> checkpoint', date |-> get_last_checkpoint(checkpoint'),
                    calls |-> 1]
    /\ UNCHANGED <<cpc, carg, cdoc, wgVars, brokerVars, pipeVars, clientVars>>
    /\ UNCHANGED <<pubVars, mcVars, failedVars, siteVars, scrVars, rcVars>>
    /\ UNCHANGED opVars

InitCallers ==
    /\ cpc = [w \in Callers |-> "idle"]
    /\ carg = [w \in Callers |-> None]
    /\ cdoc = [w \in Callers |-> NoDoc]
    /\ advanced = <<>>

\* ------------------------------------------------------------ job queue
\* A message as the broker holds it: ready for delivery, delivered and not yet
\* acknowledged (owner is the consumer holding it), or acknowledged.
Message(body) == [body |-> body, st |-> "ready", owner |-> "none"]

\* Faulty publish: the message is routed to no queue and is dropped.
publish_dropped(queue, message) == queue

\* Faulty publish: the message is sent twice.
publish_twice(queue, message) ==
    Append(Append(queue, [body |-> message, st |-> "ready", owner |-> "none"]),
           [body |-> message, st |-> "ready", owner |-> "none"])

\* RabbitMQClient.publish: basic_publish to the default exchange with the queue
\* name as routing key appends one persistent message to that queue.
publish(queue, message) == Append(queue, Message(message))

Bodies(queue) == [i \in 1..Len(queue) |-> queue[i].body]

InitBroker == jobQueue = <<>>

\* --------------------------------------------------------- Work Generator
\* ARCHIVED_ARTICLES_START_DATE
StartDate == 1

\* First date an invocation publishes, given the cursor it read.
FirstDate(cursor) == IF cursor = None THEN StartDate ELSE cursor + 1

DateSeq(from, to) == [i \in 1..(IF to >= from THEN to - from + 1 ELSE 0) |-> from + i - 1]

\* The dates the current invocation has published so far, in publish order.
RunJobs == SubSeq(Bodies(jobQueue), wgStartLen + 1, Len(jobQueue))

\* The calendar moves on.
Tick ==
    /\ today < MaxDate
    /\ today' = today + 1
    /\ UNCHANGED <<wgPc, wgToday, wgCursor, wgNext, wgStartLen, wgFailedAt, wgRuns, wgLost>>
    /\ UNCHANGED <<storeVars, callerVars, clientVars, brokerVars, pipeVars>>
    /\ UNCHANGED callVars

\* An invocation starts: it reads TODAYS_DATE and the cursor.
WGStart ==
    /\ wgPc \in {"idle", "done", "crashed"}
    /\ wgRuns < MaxRuns
    /\ wgRuns' = wgRuns + 1
    /\ wgToday' = today
    /\ wgCursor' = get_last_checkpoint(checkpoint)
    /\ wgNext' = FirstDate(get_last_checkpoint(checkpoint))
    /\ wgStartLen' = Len(jobQueue)
    /\ wgFailedAt' = None
    /\ wgLost' = IF wgPc = "crashed" THEN wgLost ELSE <<>>
    /\ wgPc' = "publishing"
    /\ UNCHANGED <<today, storeVars, callerVars, clientVars, brokerVars, pipeVars>>
    /\ UNCHANGED callVars

\* publish(JOB_QUEUE_NAME, job for wgNext) returns.
WGPublish ==
    /\ wgPc = "publishing"
    /\ wgFailedAt = None
    /\ wgNext <= wgToday
    /\ jobQueue' = publish(jobQueue, wgNext)
    /\ wgNext' = wgNext + 1
    /\ UNCHANGED <<today, wgPc, wgToday, wgCursor, wgStartLen, wgFailedAt, wgRuns, wgLost>>
    /\ UNCHANGED <<storeVars, callerVars, clientVars, pipeVars>>
    /\ UNCHANGED callVars

\* publish raises CustomException for wgNext also after the retries: nothing
\* was enqueued and the invocation stops publishing.
WGPublishFail ==
    /\ wgPc = "publishing"
    /\ wgFailedAt = None
    /\ wgNext <= wgToday
    /\ wgFailedAt' = wgNext
    /\ UNCHANGED <<today, wgPc, wgToday, wgCursor, wgNext, wgStartLen, wgRuns, wgLost>>
    /\ UNCHANGED <<storeVars, callerVars, clientVars, brokerVars, pipeVars>>
    /\ UNCHANGED callVars

\* All dates published, or one failed: advance the cursor to the last date
\* published (nothing to do when no date was published) and return.
WGAdvance ==
    /\ wgPc = "publishing"
    /\ wgNext > wgToday \/ wgFailedAt # None
    /\ IF wgNext > FirstDate(wgCursor)
       THEN /\ checkpoint' = update_last_checkpoint(checkpoint, nextId, wgNext - 1)
            /\ nextId' = IF checkpoint = {} THEN nextId + 1 ELSE nextId
       ELSE UNCHANGED storeVars
    /\ wgPc' = "done"
    /\ UNCHANGED <<today, wgToday, wgCursor, wgNext, wgStartLen, wgFailedAt, wgRuns, wgLost>>
    /\ UNCHANGED <<callerVars, clientVars, brokerVars, pipeVars>>
    /\ UNCHANGED callVars

\* The process dies before it advanced the cursor.
WGCrash ==
    /\ wgPc = "publishing"
    /\ wgLost' = RunJobs
    /\ wgPc' = "crashed"
    /\ UNCHANGED <<today, wgToday, wgCursor, wgNext, wgStartLen, wgFailedAt, wgRuns>>
    /\ UNCHANGED <<storeVars, callerVars, clientVars, brokerVars, pipeVars>>
    /\ UNCHANGED callVars

InitWG ==
    /\ today = StartDate
    /\ wgPc = "idle"
    /\ wgToday = StartDate
    /\ wgCursor = None
    /\ wgNext = StartDate
    /\ wgStartLen = 0
    /\ wgFailedAt = None
    /\ wgRuns = 0
    /\ wgLost = <<>>

\* ------------------------------------------------- consume / acknowledge
\* Faulty consume: messages are acknowledged on delivery.
auto_ack_on == TRUE

\* Faulty consume: two messages may be outstanding per worker.
prefetch_count_two == 1 + 1

\* RabbitMQClient.consume defaults: manual acknowledgment, one message at a time.
auto_ack == FALSE

prefetch_count == 1

Unacked(queue, w) ==
    {i \in 1..Len(queue) : queue[i].st = "unacked" /\ queue[i].owner = w}

ReadyMsgs(queue) == {i \in 1..Len(queue) : queue[i].st = "ready"}

\* basic_qos(prefetch_count) + basic_consume(auto_ack): the broker hands the
\* oldest ready message to a worker that holds fewer than prefetch_count
\* unacknowledged ones.
CanDeliver(queue, w) ==
    /\ ReadyMsgs(queue) # {}
    /\ Cardinality(Unacked(queue, w)) < prefetch_count

FirstReady(queue) == CHOOSE i \in ReadyMsgs(queue) : \A j \in ReadyMsgs(queue) : i <= j

deliver(queue, i, w) ==
    [queue EXCEPT ![i] = [body |-> queue[i].body,
                          st |-> IF auto_ack THEN "acked" ELSE "unacked",
                          owner |-> w]]

\* Faulty acknowledgment: it never reaches the broker.
basic_ack_lost(queue, i) == queue

basic_ack(queue, i) == [queue EXCEPT ![i].st = "acked"]

\* Faulty close: the connection stays open and the broker keeps the worker's
\* messages outstanding.
requeue_kept(queue, w) == queue

\* Faulty close: the worker's outstanding messages are acknowledged.
requeue_acked(queue, w) ==
    [i \in 1..Len(queue) |->
        IF queue[i].st = "unacked" /\ queue[i].owner = w
        THEN [body |-> queue[i].body, st |-> "acked", owner |-> w]
        ELSE queue[i]]

\* The broker returns a lost worker's unacknowledged messages to the queue.
requeue(queue, w) ==
    [i \in 1..Len(queue) |->
        IF queue[i].st = "unacked" /\ queue[i].owner = w
        THEN [body |-> queue[i].body, st |-> "ready", owner |-> "none"]
        ELSE queue[i]]

\* ----------------------------------------------------------- stored records
Keys == {"a", "b"}

StoredKeys(coll) == {coll[i].url : i \in 1..Len(coll)}

\* Faulty existence check: the filter matches nothing.
is_article_link_exists_never(coll, article_link) == FALSE

\* ProducerRepository.is_article_link_exists: find_one({url: link}) is not None
is_article_link_exists(coll, article_link) ==
    \E i \in 1..Len(coll) : coll[i].url = article_link

\* MongoBaseRepository.insert_data: collection.insert_many(data)
insert_data(coll, data) == coll \o data

\* PostgreSQLOperation.insert_article:
\* INSERT ... ON CONFLICT (url) DO NOTHING inside connection_cursor (commit).
insert_article(table, article_data) ==
    IF \E r \in table : r.url = article_data.url
    THEN table
    ELSE table \cup {article_data}

\* MongoDBConfig: the names of the article and of the checkpoint collection
MONGODB_DATA_COLLECTION_NAME == "RAW_BBC_NEWS_COLLECTION"
MONGODB_WORK_CHECKPOINT_NAME == "WORK_CHECKPOINT"

\* db = self._client[MONGODB_DATABASE_NAME]: the collections by name
Database ==
    [name \in {MONGODB_DATA_COLLECTION_NAME, MONGODB_WORK_CHECKPOINT_NAME} |->
        IF name = MONGODB_DATA_COLLECTION_NAME THEN mongoData ELSE checkpoint]

\* Faulty lookup: the checkpoint collection whatever name is asked for.
get_collection_checkpoint(collection_name) == MONGODB_WORK_CHECKPOINT_NAME

\* _get_collection: collection = db[collection_name]
get_collection(collection_name) == collection_name

\* insert_data(collection_name, data) on the database: insert_many on the
\* collection _get_collection returns. The checkpoint collection is kept as
\* a set of rows, the article collection as a sequence of documents.
insert_many(db, collection_name, data) ==
    LET name == get_collection(collection_name)
    IN IF name = MONGODB_WORK_CHECKPOINT_NAME
       THEN [db EXCEPT ![name] = @ \cup {data[i] : i \in 1..Len(data)}]
       ELSE [db EXCEPT ![name] = insert_data(@, data)]

\* ------------------------------------------------- direct store calls
Titles == {"t1", "t2"}

\* insert_data(RAW_BBC_NEWS_COLLECTION, [document]) is called and returns.
StoreInsertData ==
    /\ Len(mongoData) < MaxWrites
    /\ \E k \in Keys, t \in Titles :
          mongoData' = insert_data(mongoData, <<[url |-> k, title |-> t]>>)
    /\ apiResult' = "insert_data"
    /\ UNCHANGED <<storeVars, callerVars, clientVars, wgVars, brokerVars>>
    /\ UNCHANGED <<taskQueue, prodVars, consVars, pgTable, failedJobs, failedTasks, crashes>>
    /\ UNCHANGED callVars

\* insert_article(article) is called and returns.
StoreInsertArticle ==
    /\ \E k \in Keys, t \in Titles :
          pgTable' = insert_article(pgTable, [url |-> k, title |-> t])
    /\ apiResult' = "insert_article"
    /\ UNCHANGED <<storeVars, callerVars, clientVars, wgVars, brokerVars>>
    /\ UNCHANGED <<taskQueue, prodVars, consVars, mongoData, failedJobs, failedTasks, crashes>>
    /\ UNCHANGED callVars

\* The record the content-fetch adapter returns for an identifier.
Fetch(item_key) == [url |-> item_key, title |-> "t1"]

\* ---------------------------------------------------------------- Producer
Producers == {"p1", "p2"}

\* The discovery adapter's answer for a date.
Discover(date) ==
    IF date = 1 THEN <<"a">>
    ELSE IF date = 2 THEN <<"a", "b">>
    ELSE <<>>

CurItem(p) == pitems[p][pidx[p]]

\* A job for some date is put on the job queue (by the Work Generator, or
\* again for a date already enqueued).
JobEnqueue ==
    /\ Len(jobQueue) < MaxJobs
    /\ \E d \in 1..2 : jobQueue' = publish(jobQueue, d)
    /\ UNCHANGED <<storeVars, callerVars, clientVars, wgVars, pipeVars>>
    /\ UNCHANGED callVars

\* The broker delivers the next job to a waiting worker.
PDeliver(p) ==
    /\ ppc[p] = "wait"
    /\ CanDeliver(jobQueue, p)
    /\ jobQueue' = deliver(jobQueue, FirstReady(jobQueue), p)
    /\ pmsg' = [pmsg EXCEPT ![p] = FirstReady(jobQueue)]
    /\ pattempts' = [pattempts EXCEPT ![p] = 0]
    /\ ppc' = [ppc EXCEPT ![p] = "discover"]
    /\ UNCHANGED <<pitems, pidx, pexists>>
    /\ UNCHANGED <<storeVars, callerVars, clientVars, wgVars>>
    /\ UNCHANGED <<taskQueue, consVars, recordVars, crashes, apiResult>>
    /\ UNCHANGED callVars

\* The discovery adapter returns the identifiers of the job's date.
PDiscover(p) ==
    /\ ppc[p] = "discover"
    /\ pitems' = [pitems EXCEPT ![p] = Discover(jobQueue[pmsg[p]].body)]
    /\ pidx' = [pidx EXCEPT ![p] = 1]
    /\ ppc' = [ppc EXCEPT ![p] =
                 IF Discover(jobQueue[pmsg[p]].body) = <<>> THEN "ack" ELSE "check"]
    /\ UNCHANGED <<pmsg, pexists, pattempts>>
    /\ UNCHANGED <<storeVars, callerVars, clientVars, wgVars, brokerVars>>
    /\ UNCHANGED <<taskQueue, consVars, recordVars, crashes, apiResult>>
    /\ UNCHANGED callVars

\* The discovery adapter fails: retry, or at the attempt ceiling write the
\* job's Failure Record and go on to acknowledge it.
PDiscoverFail(p) ==
    /\ ppc[p] = "discover"
    /\ pattempts' = [pattempts EXCEPT ![p] = pattempts[p] + 1]
    /\ IF pattempts[p] + 1 >= MaxAttempts
       THEN /\ failedJobs' = Append(failedJobs, jobQueue[pmsg[p]].body)
            /\ ppc' = [ppc EXCEPT ![p] = "ack"]
       ELSE UNCHANGED <<failedJobs, ppc>>
    /\ UNCHANGED <<pmsg, pitems, pidx, pexists>>
    /\ UNCHANGED <<storeVars, callerVars, clientVars, wgVars, brokerVars>>
    /\ UNCHANGED <<taskQueue, consVars, mongoData, pgTable, failedTasks, crashes, apiResult>>
    /\ UNCHANGED callVars

\* Existence check of the current identifier against the Stored Records.
PCheck(p) ==
    /\ ppc[p] = "check"
    /\ pexists' = [pexists EXCEPT ![p] = is_article_link_exists(mongoData, CurItem(p))]
    /\ ppc' = [ppc EXCEPT ![p] = "publish"]
    /\ UNCHANGED <<pmsg, pitems, pidx, pattempts>>
    /\ UNCHANGED <<storeVars, callerVars, clientVars, wgVars, brokerVars>>
    /\ UNCHANGED <<taskQueue, consVars, recordVars, crashes, apiResult>>
    /\ UNCHANGED callVars

\* A new identifier is published as a Task, a stored one is skipped; then the
\* next identifier, or the acknowledgment when none is left.
PPublish(p) ==
    /\ ppc[p] = "publish"
    /\ taskQueue' = IF pexists[p] THEN taskQueue ELSE publish(taskQueue, CurItem(p))
    /\ pidx' = [pidx EXCEPT ![p] = pidx[p] + 1]
    /\ ppc' = [ppc EXCEPT ![p] = IF pidx[p] + 1 > Len(pitems[p]) THEN "ack" ELSE "check"]
    /\ pexists' = [pexists EXCEPT ![p] = FALSE]
    /\ UNCHANGED <<pmsg, pitems, pattempts>>
    /\ UNCHANGED <<storeVars, callerVars, clientVars, wgVars, brokerVars>>
    /\ UNCHANGED <<consVars, recordVars, crashes, apiResult>>
    /\ UNCHANGED callVars

\* basic_ack of the job.
PAck(p) ==
    /\ ppc[p] = "ack"
    /\ jobQueue' = basic_ack(jobQueue, pmsg[p])
    /\ ppc' = [ppc EXCEPT ![p] = "wait"]
    /\ pmsg' = [pmsg EXCEPT ![p] = 0]
    /\ pitems' = [pitems EXCEPT ![p] = <<>>]
    /\ pidx' = [pidx EXCEPT ![p] = 0]
    /\ pexists' = [pexists EXCEPT ![p] = FALSE]
    /\ pattempts' = [pattempts EXCEPT ![p] = 0]
    /\ UNCHANGED <<storeVars, callerVars, clientVars, wgVars>>
    /\ UNCHANGED <<taskQueue, consVars, recordVars, crashes, apiResult>>
    /\ UNCHANGED callVars

\* The worker dies while it holds a job; the broker requeues the job and the
\* restarted worker waits for a delivery.
PCrash(p) ==
    /\ ppc[p] # "wait"
    /\ crashes < MaxCrashes
    /\ crashes' = crashes + 1
    /\ jobQueue' = requeue(jobQueue, p)
    /\ ppc' = [ppc EXCEPT ![p] = "wait"]
    /\ pmsg' = [pmsg EXCEPT ![p] = 0]
    /\ pitems' = [pitems EXCEPT ![p] = <<>>]
    /\ pidx' = [pidx EXCEPT ![p] = 0]
    /\ pexists' = [pexists EXCEPT ![p] = FALSE]
    /\ pattempts' = [pattempts EXCEPT ![p] = 0]
    /\ UNCHANGED <<storeVars, callerVars, clientVars, wgVars>>
    /\ UNCHANGED <<taskQueue, consVars, recordVars, apiResult>>
    /\ UNCHANGED callVars

\* ---------------------------------------------------------------- Consumer
Consumers == {"c1", "c2"}

\* The Consumer worker that runs next to the Producers.
Consumer == "c1"

\* A task is put on the task queue (by a Producer).
TaskEnqueue ==
    /\ Len(taskQueue) < MaxTasks
    /\ \E k \in Keys : taskQueue' = publish(taskQueue, k)
    /\ UNCHANGED <<storeVars, callerVars, clientVars, wgVars, brokerVars>>
    /\ UNCHANGED <<prodVars, consVars, recordVars, crashes, apiResult>>
    /\ UNCHANGED callVars

\* The broker delivers the next task to a consuming worker's channel.
CDeliver(c) ==
    /\ conPc[c] # "closed"
    /\ CanDeliver(taskQueue, c)
    /\ taskQueue' = deliver(taskQueue, FirstReady(taskQueue), c)
    /\ conInbox' = [conInbox EXCEPT ![c] = Append(conInbox[c], FirstReady(taskQueue))]
    /\ UNCHANGED <<conPc, conMsg>>
    /\ UNCHANGED <<storeVars, callerVars, clientVars, wgVars, brokerVars>>
    /\ UNCHANGED <<prodVars, recordVars, crashes, apiResult>>
    /\ UNCHANGED callVars

\* start_consuming hands the delivered task to the worker's callback.
CBegin(c) ==
    /\ conPc[c] = "wait"
    /\ conInbox[c] # <<>>
    /\ conMsg' = [conMsg EXCEPT ![c] = Head(conInbox[c])]
    /\ conInbox' = [conInbox EXCEPT ![c] = Tail(conInbox[c])]
    /\ conPc' = [conPc EXCEPT ![c] = "fetch"]
    /\ UNCHANGED <<storeVars, callerVars, clientVars, wgVars, brokerVars>>
    /\ UNCHANGED <<taskQueue, prodVars, recordVars, crashes, apiResult>>
    /\ UNCHANGED callVars

\* The content-fetch adapter returns the record of the task's identifier.
CFetch(c) ==
    /\ conPc[c] = "fetch"
    /\ conPc' = [conPc EXCEPT ![c] = "mongo"]
    /\ UNCHANGED <<conMsg, conInbox>>
    /\ UNCHANGED <<storeVars, callerVars, clientVars, wgVars, brokerVars>>
    /\ UNCHANGED <<taskQueue, prodVars, recordVars, crashes, apiResult>>
    /\ UNCHANGED callVars

\* The fetched record is written to the document store.
CWriteMongo(c) ==
    /\ conPc[c] = "mongo"
    /\ LET db == insert_many(Database, MONGODB_DATA_COLLECTION_NAME,
                             <<Fetch(taskQueue[conMsg[c]].body)>>)
       IN /\ mongoData' = db[MONGODB_DATA_COLLECTION_NAME]
          /\ checkpoint' = db[MONGODB_WORK_CHECKPOINT_NAME]
    /\ conPc' = [conPc EXCEPT ![c] = "postgres"]
    /\ UNCHANGED <<conMsg, conInbox>>
    /\ UNCHANGED <<nextId, callerVars, clientVars, wgVars, brokerVars>>
    /\ UNCHANGED <<taskQueue, prodVars, pgTable, failedJobs, failedTasks, crashes, apiResult>>
    /\ UNCHANGED callVars

\* The fetched record is written to the relational store.
CWritePostgres(c) ==
    /\ conPc[c] = "postgres"
    /\ pgTable' = insert_article(pgTable, Fetch(taskQueue[conMsg[c]].body))
    /\ conPc' = [conPc EXCEPT ![c] = "ack"]
    /\ UNCHANGED <<conMsg, conInbox>>
    /\ UNCHANGED <<storeVars, callerVars, clientVars, wgVars, brokerVars>>
    /\ UNCHANGED <<taskQueue, prodVars, mongoData, failedJobs, failedTasks, crashes, apiResult>>
    /\ UNCHANGED callVars

\* The fetch or a store write failed on every attempt up to the ceiling: the
\* task's Failure Record is written and the handler goes on to acknowledge.
CFail(c) ==
    /\ conPc[c] \in {"fetch", "mongo", "postgres"}
    /\ failedTasks' = Append(failedTasks, [item_key |-> taskQueue[conMsg[c]].body,
                                          delivery |-> conMsg[c]])
    /\ conPc' = [conPc EXCEPT ![c] = "ack"]
    /\ UNCHANGED <<conMsg, conInbox>>
    /\ UNCHANGED <<storeVars, callerVars, clientVars, wgVars, brokerVars>>
    /\ UNCHANGED <<taskQueue, prodVars, mongoData, pgTable, failedJobs, crashes, apiResult>>
    /\ UNCHANGED callVars

\* basic_ack of the task.
CAck(c) ==
    /\ conPc[c] = "ack"
    /\ taskQueue' = basic_ack(taskQueue, conMsg[c])
    /\ conPc' = [conPc EXCEPT ![c] = "wait"]
    /\ conMsg' = [conMsg EXCEPT ![c] = 0]
    /\ UNCHANGED conInbox
    /\ UNCHANGED <<storeVars, callerVars, clientVars, wgVars, brokerVars>>
    /\ UNCHANGED <<prodVars, recordVars, crashes, apiResult>>
    /\ UNCHANGED callVars

\* KeyboardInterrupt inside consume (waiting, or inside the callback): the
\* client closes channel and connection and consume returns; nothing is
\* acknowledged and the broker returns the worker's unacknowledged tasks.
CInterrupt(c) ==
    /\ conPc[c] # "closed"
    /\ crashes < MaxCrashes
    /\ crashes' = crashes + 1
    /\ taskQueue' = requeue(taskQueue, c)
    /\ conPc' = [conPc EXCEPT ![c] = "closed"]
    /\ conMsg' = [conMsg EXCEPT ![c] = 0]
    /\ conInbox' = [conInbox EXCEPT ![c] = <<>>]
    /\ UNCHANGED <<storeVars, callerVars, clientVars, wgVars, brokerVars>>
    /\ UNCHANGED <<prodVars, recordVars, apiResult>>
    /\ UNCHANGED callVars

\* The worker is started again and consumes from the task queue.
CStart(c) ==
    /\ conPc[c] = "closed"
    /\ conPc' = [conPc EXCEPT ![c] = "wait"]
    /\ UNCHANGED <<conMsg, conInbox>>
    /\ UNCHANGED <<storeVars, callerVars, clientVars, wgVars, brokerVars>>
    /\ UNCHANGED <<taskQueue, prodVars, recordVars, crashes, apiResult>>
    /\ UNCHANGED callVars

InitPipe ==
    /\ taskQueue = <<>>
    /\ mongoData = <<>>
    /\ pgTable = {}
    /\ failedJobs = <<>>
    /\ failedTasks = <<>>
    /\ ppc = [p \in Producers |-> "wait"]
    /\ pmsg = [p \in Producers |-> 0]
    /\ pitems = [p \in Producers |-> <<>>]
    /\ pidx = [p \in Producers |-> 0]
    /\ pexists = [p \in Producers |-> FALSE]
    /\ pattempts = [p \in Producers |-> 0]
    /\ conPc = [c \in Consumers |-> "wait"]
    /\ conMsg = [c \in Consumers |-> 0]
    /\ conInbox = [c \in Consumers |-> <<>>]
    /\ crashes = 0
    /\ apiResult = "none"

\* ------------------------------------------------------ retried operations
GetCollection == "MongoBaseRepository._get_collection"
MongoConnect == "MongoBaseRepository._connect"
RabbitConnect == "RabbitMQClient._connect"
PgGetConnection == "PostgreSQLOperation.get_connection"

RetriedOps == {GetCollection, MongoConnect, RabbitConnect, PgGetConnection}

\* MongoDBConfig.RETRY_DELAY (seconds)
RETRY_DELAY == 1

\* RabbitMQConfig.RETRY_BACKOFF_FACTOR
RETRY_BACKOFF_FACTOR == 2

\* @retry(wait=wait_fixed(2), stop=stop_after_attempt(5))
wait_fixed == 2

stop_after_attempt == 5

\* random.uniform(0, 0.5): none, or some fraction of a second
Jitters == {0, 1}

RECURSIVE Pow(_, _)
Pow(b, e) == IF e = 0 THEN 1 ELSE b * Pow(b, e - 1)

\* pymongo errors deriving from PyMongoError
PyMongoErrors == {"ConnectionFailure", "OperationFailure"}

\* The errors an attempt of each operation can end with. ConnectionFailure,
\* AMQPConnectionError and OperationalError are the unreachable-server errors;
\* CustomException is _get_collection's own "client is not initialized".
AttemptErrors(op) ==
    IF op = GetCollection THEN {"ConnectionFailure", "OperationFailure", "CustomException", "Exception"}
    ELSE IF op = MongoConnect THEN {"ConnectionFailure", "OperationFailure", "Exception"}
    ELSE IF op = RabbitConnect THEN {"AMQPConnectionError", "Exception"}
    ELSE {"OperationalError", "Exception"}

AnyError ==
    {"ConnectionFailure", "OperationFailure", "AMQPConnectionError",
     "OperationalError", "CustomException", "Exception", "AttributeError"}

\* Faulty wait: linear instead of exponential.
mongo_wait_linear(attempt) == RETRY_DELAY * attempt

\* time.sleep(RETRY_DELAY * (2 ** (attempt - 1)))
mongo_wait(attempt) == RETRY_DELAY * Pow(2, attempt - 1)

\* time.sleep(RETRY_BACKOFF_FACTOR ** attempt + random.uniform(0, 0.5)),
\* attempt already counting the failure
rabbit_wait(attempt) == Pow(RETRY_BACKOFF_FACTOR, attempt)

\* Faulty handler: every error is caught and retried.
catches_all(op, err) == TRUE

\* Whether the operation's except clause (tenacity's default predicate for
\* get_connection) catches the error and goes on to another attempt.
catches(op, err) ==
    IF op = GetCollection THEN err \in PyMongoErrors
    ELSE IF op = MongoConnect THEN FALSE
    ELSE IF op = RabbitConnect THEN err = "AMQPConnectionError"
    ELSE TRUE

\* Faulty loop head: a loop that runs out returns normally.
loop_head_returns(op, failed, max) ==
    IF failed < max THEN [pc |-> "try", result |-> "none"]
    ELSE [pc |-> "returned", result |-> "None"]

\* The head of the retry loop after `failed` failed attempts: the next attempt
\* starts, or the loop runs out. _get_collection's for loop then falls off the
\* end of the function (returns None); _connect's while loop runs its else
\* branch (close, ConnectionError, re-raised as CustomException).
loop_head(op, failed, max) ==
    IF op = GetCollection THEN
        IF failed < max THEN [pc |-> "try", result |-> "none"]
        ELSE [pc |-> "returned", result |-> "None"]
    ELSE IF op = RabbitConnect THEN
        IF failed < max THEN [pc |-> "try", result |-> "none"]
        ELSE [pc |-> "raised", result |-> "CustomException"]
    ELSE [pc |-> "try", result |-> "none"]

\* What a failed attempt leads to: a wait and the loop head, or an exception.
on_error(op, err, attempt, max, jitter) ==
    IF op = GetCollection THEN
        IF catches(op, err) THEN
            IF attempt < max
            THEN [pc |-> "loop", result |-> "none",
                  sleep |-> <<[wait |-> mongo_wait(attempt), jitter |-> 0]>>]
            ELSE [pc |-> "raised", result |-> "CustomException", sleep |-> <<>>]
        ELSE [pc |-> "raised", result |-> err, sleep |-> <<>>]
    ELSE IF op = MongoConnect THEN
        IF catches(op, err)
        THEN [pc |-> "loop", result |-> "none", sleep |-> <<>>]
        ELSE [pc |-> "raised",
              result |-> IF err = "ConnectionFailure" THEN "CustomException" ELSE err,
              sleep |-> <<>>]
    ELSE IF op = RabbitConnect THEN
        IF catches(op, err)
        THEN [pc |-> "loop", result |-> "none",
              sleep |-> <<[wait |-> rabbit_wait(attempt), jitter |-> jitter]>>]
        ELSE [pc |-> "raised", result |-> "CustomException", sleep |-> <<>>]
    ELSE
        IF catches(op, err) /\ attempt < stop_after_attempt
        THEN [pc |-> "loop", result |-> "none",
              sleep |-> <<[wait |-> wait_fixed, jitter |-> 0]>>]
        ELSE [pc |-> "raised",
              result |-> IF catches(op, err) THEN "RetryError" ELSE err,
              sleep |-> <<>>]

\* The exception that leaves the operation. Every log call of RabbitMQClient
\* reads self.rabbitmq_config.RABBITMQ_HOST for its "host" entry, the one in
\* _connect's outer except clause included, before CustomException is raised:
\* with a configuration object that has no such attribute (RabbitMQConfig
\* names it RABBITMQ_HOST_NAME) the AttributeError of that read leaves instead.
escapes(op, result, host) ==
    IF op = RabbitConnect /\ ~host /\ result # "none" THEN "AttributeError" ELSE result

\* The operation is called with its configured attempt ceiling; a
\* RabbitMQClient is constructed with the configuration object it is given
\* (__init__ sets connection and channel to None and calls _connect).
call(op, max) ==
    /\ rop' = op
    /\ rmax' = IF op = PgGetConnection THEN stop_after_attempt ELSE max
    /\ rerrs' = <<>>
    /\ rsleeps' = <<>>
    /\ rhost' \in (IF op = RabbitConnect THEN BOOLEAN ELSE {TRUE})
    /\ rconnection' = "none"
    /\ rchannel' = "none"
    /\ LET h == loop_head(op, 0, max)
       IN /\ rpc' = h.pc
          /\ rresult' = escapes(op, h.result, rhost')
          /\ rattempt' = IF h.pc = "try" THEN 1 ELSE 0

\* A caller calls the operation.
RCall(op, max) ==
    /\ boot = "down"
    /\ rpc \in {"idle", "returned", "raised"}
    /\ call(op, max)
    /\ UNCHANGED <<storeVars, callerVars, wgVars, brokerVars, pipeVars, bootVars, cursorVars>>
    /\ UNCHANGED callVars

\* The attempt succeeds: the collection is returned, the connection is set.
RSucceed ==
    /\ rpc = "try"
    /\ rhost
    /\ rpc' = "returned"
    /\ rresult' = "usable"
    /\ rconnection' = IF rop = RabbitConnect THEN "open" ELSE rconnection
    /\ rchannel' = IF rop = RabbitConnect THEN "open" ELSE rchannel
    /\ UNCHANGED <<rop, rmax, rattempt, rerrs, rsleeps, rhost>>
    /\ UNCHANGED <<storeVars, callerVars, wgVars, brokerVars, pipeVars, bootVars, cursorVars>>
    /\ UNCHANGED callVars

\* The attempt fails with an error: the except clause runs, and with it the
\* wait and the next turn of the loop.
RError(err) ==
    /\ rpc = "try"
    /\ err \in (IF rhost THEN AttemptErrors(rop) ELSE {"AttributeError"})
    /\ rerrs' = Append(rerrs, err)
    /\ \E j \in Jitters :
          LET e == on_error(rop, err, rattempt, rmax, j)
              h == IF e.pc = "loop" THEN loop_head(rop, rattempt, rmax)
                   ELSE [pc |-> e.pc, result |-> e.result]
          IN /\ rsleeps' = rsleeps \o e.sleep
             /\ rpc' = h.pc
             /\ rresult' = escapes(rop, h.result, rhost)
             /\ rattempt' = IF h.pc = "try" THEN rattempt + 1 ELSE rattempt
    /\ UNCHANGED <<rop, rmax, rhost, rconnection, rchannel>>
    /\ UNCHANGED <<storeVars, callerVars, wgVars, brokerVars, pipeVars, bootVars, cursorVars>>
    /\ UNCHANGED callVars

\* ------------------------------------------------------ component start
Components == {"work_generator", "producer", "consumer"}

\* The persisted state: checkpoint, both queues, Stored Records, Failure Records.
Persisted == <<checkpoint, jobQueue, taskQueue, mongoData, pgTable, failedJobs, failedTasks>>

\* The clients a component constructs when it starts; each constructor connects.
StartupClients == <<RabbitConnect, MongoConnect>>

\* A component process starts.
BootStart(comp) ==
    /\ boot \in {"down", "aborted", "stopped"}
    /\ rpc \in {"idle", "returned", "raised"}
    /\ boot' = "connecting"
    /\ bootComp' = comp
    /\ bootSnap' = Persisted
    /\ bootLeft' = StartupClients
    /\ bootResults' = <<>>
    /\ rpc' = "idle"
    /\ UNCHANGED <<rop, rmax, rattempt, rerrs, rsleeps, rresult, rhost, rconnection, rchannel>>
    /\ UNCHANGED <<storeVars, callerVars, wgVars, brokerVars, pipeVars, cursorVars>>
    /\ UNCHANGED callVars

\* It constructs its next client: RabbitMQClient(config), MongoBaseRepository(config).
BootConnect(max) ==
    /\ boot = "connecting"
    /\ rpc = "idle"
    /\ bootLeft # <<>>
    /\ call(Head(bootLeft), max)
    /\ bootLeft' = Tail(bootLeft)
    /\ UNCHANGED <<boot, bootComp, bootSnap, bootResults>>
    /\ UNCHANGED <<storeVars, callerVars, wgVars, brokerVars, pipeVars, cursorVars>>
    /\ UNCHANGED callVars

\* The constructor returned: on to the next client, or to work.
BootConnected ==
    /\ boot = "connecting"
    /\ rpc = "returned"
    /\ bootResults' = Append(bootResults, rresult)
    /\ rpc' = "idle"
    /\ boot' = IF bootLeft = <<>> THEN "running" ELSE "connecting"
    /\ UNCHANGED <<bootComp, bootSnap, bootLeft>>
    /\ UNCHANGED <<rop, rmax, rattempt, rerrs, rsleeps, rresult, rhost, rconnection, rchannel>>
    /\ UNCHANGED <<storeVars, callerVars, wgVars, brokerVars, pipeVars, cursorVars>>
    /\ UNCHANGED callVars

\* The constructor raised: the start-up is abandoned.
BootAbort ==
    /\ boot = "connecting"
    /\ rpc = "raised"
    /\ boot' = "aborted"
    /\ UNCHANGED <<bootComp, bootSnap, bootLeft, bootResults>>
    /\ UNCHANGED retryVars
    /\ UNCHANGED <<storeVars, callerVars, wgVars, brokerVars, pipeVars, cursorVars>>
    /\ UNCHANGED callVars

\* The running component writes: the Work Generator a job, the Producer a
\* Task, the Consumer a document.
BootWork ==
    /\ boot = "running"
    /\ \/ /\ bootComp = "work_generator"
          /\ Len(jobQueue) < MaxJobs
          /\ jobQueue' = publish(jobQueue, StartDate)
          /\ UNCHANGED <<taskQueue, mongoData>>
       \/ /\ bootComp = "producer"
          /\ Len(taskQueue) < MaxTasks
          /\ taskQueue' = publish(taskQueue, "a")
          /\ UNCHANGED <<jobQueue, mongoData>>
       \/ /\ bootComp = "consumer"
          /\ Len(mongoData) < MaxWrites
          /\ mongoData' = insert_data(mongoData, <<Fetch("a")>>)
          /\ UNCHANGED <<jobQueue, taskQueue>>
    /\ UNCHANGED <<prodVars, consVars, pgTable, failedJobs, failedTasks, crashes, apiResult>>
    /\ UNCHANGED <<storeVars, callerVars, wgVars, clientVars>>
    /\ UNCHANGED callVars

\* The component ends its run.
BootStop ==
    /\ boot = "running"
    /\ boot' = "stopped"
    /\ UNCHANGED <<bootComp, bootSnap, bootLeft, bootResults>>
    /\ UNCHANGED <<retryVars, cursorVars>>
    /\ UNCHANGED <<storeVars, callerVars, wgVars, brokerVars, pipeVars>>
    /\ UNCHANGED callVars

InitBoot ==
    /\ boot = "down"
    /\ bootComp = "none"
    /\ bootSnap = <<>>
    /\ bootLeft = <<>>
    /\ bootResults = <<>>

InitRetry ==
    /\ rop = "none"
    /\ rmax = 0
    /\ rpc = "idle"
    /\ rattempt = 0
    /\ rerrs = <<>>
    /\ rsleeps = <<>>
    /\ rresult = "none"
    /\ rhost = TRUE
    /\ rconnection = "none"
    /\ rchannel = "none"

\* --------------------------------------------------- connection_cursor
\* conn.commit(): the rows of the open transaction are in the table.
commit(table, tx) ==
    IF tx = <<>> THEN table ELSE insert_article(table, tx[1])

\* conn.rollback(): the rows of the open transaction are discarded.
rollback(table, tx) == table

\* the try statement always going on to conn.commit()
after_yield_commits(ok) == "commit"

\* try: yield conn, cursor; conn.commit()  except Exception: conn.rollback()
\* The body returning leads to commit, the body raising to the except clause.
after_yield(ok) == IF ok THEN "commit" ELSE "rollback"

\* with self.connection_cursor() as (conn, cursor): the caller enters.
CcEnter ==
    /\ ccPc \in {"idle", "done"}
    /\ iaPc # "called"
    /\ ccPc' = "get_connection"
    /\ ccConn' = "none"
    /\ ccCursor' = "none"
    /\ ccConnCloses' = 0
    /\ ccCursorCloses' = 0
    /\ ccCommits' = 0
    /\ ccRollbacks' = 0
    /\ ccBody' = "none"
    /\ ccExc' = <<>>
    /\ ccSnap' = pgTable
    /\ ccTx' = <<>>
    /\ ccRaised' = FALSE
    /\ iaPc' = "idle"
    /\ UNCHANGED iaArg
    /\ UNCHANGED <<storeVars, callerVars, wgVars, brokerVars, pipeVars, retryVars, bootVars>>
    /\ UNCHANGED callVars

\* conn = self.get_connection(): returns a connection, or raises after its
\* retries and connection_cursor ends there.
CcGetConnection(ok) ==
    /\ ccPc = "get_connection"
    /\ IF ok
       THEN ccConn' = "open" /\ ccPc' = "cursor" /\ UNCHANGED <<ccRaised, ccExc>>
       ELSE ccRaised' = TRUE /\ ccExc' = Append(ccExc, "get_connection") /\ ccPc' = "done" /\ UNCHANGED ccConn
    /\ UNCHANGED <<ccCursor, ccConnCloses, ccCursorCloses, ccTx>>
    /\ UNCHANGED <<ccCommits, ccRollbacks, ccBody, ccSnap, iaPc, iaArg>>
    /\ UNCHANGED <<storeVars, callerVars, wgVars, brokerVars, pipeVars, retryVars, bootVars>>
    /\ UNCHANGED callVars

\* cursor = conn.cursor(), before the try statement: when it raises, the
\* exception leaves connection_cursor at once.
CcCursor(ok) ==
    /\ ccPc = "cursor"
    /\ IF ok
       THEN ccCursor' = "open" /\ ccPc' = "body" /\ UNCHANGED <<ccRaised, ccExc>>
       ELSE ccRaised' = TRUE /\ ccExc' = Append(ccExc, "cursor") /\ ccPc' = "done" /\ UNCHANGED ccCursor
    /\ UNCHANGED <<ccConn, ccConnCloses, ccCursorCloses, ccTx>>
    /\ UNCHANGED <<ccCommits, ccRollbacks, ccBody, ccSnap, iaPc, iaArg>>
    /\ UNCHANGED <<storeVars, callerVars, wgVars, brokerVars, pipeVars, retryVars, bootVars>>
    /\ UNCHANGED callVars

\* yield conn, cursor: the body of the with statement runs (insert_article's
\* INSERT ... ON CONFLICT (url) DO NOTHING) and ends normally or raises.
CcBody(ok, article_data) ==
    /\ ccPc = "body"
    /\ iaPc = "called" => article_data = iaArg
    /\ ccTx' = IF ok THEN <<article_data>> ELSE ccTx
    /\ ccBody' = IF ok THEN "returned" ELSE "raised"
    /\ ccExc' = IF ok THEN ccExc ELSE Append(ccExc, "body")
    /\ ccPc' = after_yield(ok)
    /\ UNCHANGED <<ccConn, ccCursor, ccConnCloses, ccCursorCloses, ccRaised>>
    /\ UNCHANGED <<ccCommits, ccRollbacks, ccSnap, iaPc, iaArg>>
    /\ UNCHANGED <<storeVars, callerVars, wgVars, brokerVars, pipeVars, retryVars, bootVars>>
    /\ UNCHANGED callVars

\* conn.commit(): the transaction's rows are in the table, or it raises and
\* the except clause runs.
CcCommit(ok) ==
    /\ ccPc = "commit"
    /\ ccCommits' = ccCommits + 1
    /\ IF ok
       THEN /\ pgTable' = commit(pgTable, ccTx)
            /\ ccTx' = <<>>
            /\ ccPc' = "cursor_close"
            /\ UNCHANGED ccExc
       ELSE /\ ccPc' = "rollback"
            /\ ccExc' = Append(ccExc, "commit")
            /\ UNCHANGED <<pgTable, ccTx>>
    /\ UNCHANGED <<ccConn, ccCursor, ccConnCloses, ccCursorCloses, ccRaised>>
    /\ UNCHANGED <<ccRollbacks, ccBody, ccSnap, iaPc, iaArg>>
    /\ UNCHANGED <<taskQueue, prodVars, consVars, mongoData, failedJobs, failedTasks, crashes, apiResult>>
    /\ UNCHANGED <<storeVars, callerVars, wgVars, brokerVars, retryVars, bootVars>>
    /\ UNCHANGED callVars

\* except Exception: conn.rollback(), log, raise. Whether rollback returns or
\* raises, an exception is on its way out and the finally clause runs; when
\* rollback raises, its exception replaces the one being handled.
CcRollback(ok) ==
    /\ ccPc = "rollback"
    /\ ccRollbacks' = ccRollbacks + 1
    /\ pgTable' = IF ok THEN rollback(pgTable, ccTx) ELSE pgTable
    /\ ccTx' = IF ok THEN <<>> ELSE ccTx
    /\ ccExc' = IF ok THEN ccExc ELSE Append(ccExc, "rollback")
    /\ ccRaised' = TRUE
    /\ ccPc' = "cursor_close"
    /\ UNCHANGED <<ccConn, ccCursor, ccConnCloses, ccCursorCloses>>
    /\ UNCHANGED <<ccCommits, ccBody, ccSnap, iaPc, iaArg>>
    /\ UNCHANGED <<taskQueue, prodVars, consVars, mongoData, failedJobs, failedTasks, crashes, apiResult>>
    /\ UNCHANGED <<storeVars, callerVars, wgVars, brokerVars, retryVars, bootVars>>
    /\ UNCHANGED callVars

\* finally: cursor.close(); when it raises, the rest of the clause is skipped.
CcCursorClose(ok) ==
    /\ ccPc = "cursor_close"
    /\ ccCursorCloses' = ccCursorCloses + 1
    /\ IF ok
       THEN ccCursor' = "closed" /\ ccPc' = "conn_close" /\ UNCHANGED <<ccRaised, ccExc>>
       ELSE ccRaised' = TRUE /\ ccExc' = Append(ccExc, "cursor_close") /\ ccPc' = "done" /\ UNCHANGED ccCursor
    /\ UNCHANGED <<ccConn, ccConnCloses, ccTx>>
    /\ UNCHANGED <<ccCommits, ccRollbacks, ccBody, ccSnap, iaPc, iaArg>>
    /\ UNCHANGED <<storeVars, callerVars, wgVars, brokerVars, pipeVars, retryVars, bootVars>>
    /\ UNCHANGED callVars

\* finally: conn.close(), which ends an open transaction without committing;
\* when it raises, its exception is the one that leaves.
CcConnClose(ok) ==
    /\ ccPc = "conn_close"
    /\ ccConnCloses' = ccConnCloses + 1
    /\ ccConn' = "closed"
    /\ ccTx' = <<>>
    /\ ccRaised' = (ccRaised \/ ~ok)
    /\ ccExc' = IF ok THEN ccExc ELSE Append(ccExc, "conn_close")
    /\ ccPc' = "done"
    /\ UNCHANGED <<ccCursor, ccCursorCloses>>
    /\ UNCHANGED <<ccCommits, ccRollbacks, ccBody, ccSnap, iaPc, iaArg>>
    /\ UNCHANGED <<storeVars, callerVars, wgVars, brokerVars, pipeVars, retryVars, bootVars>>
    /\ UNCHANGED callVars

\* ------------------------------------------------------ insert_article
\* insert_article without its except clause's raise
insert_article_swallows(raised) == "returned"

\* except Exception as e: log; raise CustomException("Article insert failed", e)
insert_article_outcome(raised) == IF raised THEN "CustomException" ELSE "returned"

\* insert_article(article_data): the values tuple is built inside the try
\* statement (valid = FALSE: building it raises, e.g. article_data is not a
\* dict), then the with statement is entered.
InsertArticleCall(valid, article_data) ==
    /\ ccPc \in {"idle", "done"}
    /\ iaPc # "called"
    /\ iaArg' = article_data
    /\ iaPc' = IF valid THEN "called" ELSE insert_article_outcome(TRUE)
    /\ ccPc' = IF valid THEN "get_connection" ELSE "idle"
    /\ ccConn' = "none"
    /\ ccCursor' = "none"
    /\ ccConnCloses' = 0
    /\ ccCursorCloses' = 0
    /\ ccCommits' = 0
    /\ ccRollbacks' = 0
    /\ ccBody' = "none"
    /\ ccExc' = IF valid THEN <<>> ELSE <<"values">>
    /\ ccSnap' = pgTable
    /\ ccTx' = <<>>
    /\ ccRaised' = FALSE
    /\ UNCHANGED <<storeVars, callerVars, wgVars, brokerVars, pipeVars, retryVars, bootVars>>
    /\ UNCHANGED callVars

\* The with statement is left: insert_article returns, or its
\* except Exception clause raises CustomException("Article insert failed", e).
InsertArticleEnd ==
    /\ iaPc = "called"
    /\ ccPc = "done"
    /\ iaPc' = insert_article_outcome(ccRaised)
    /\ UNCHANGED <<iaArg, ccPc, ccConn, ccCursor, ccConnCloses, ccCursorCloses, ccTx, ccRaised>>
    /\ UNCHANGED <<ccCommits, ccRollbacks, ccBody, ccExc, ccSnap>>
    /\ UNCHANGED <<storeVars, callerVars, wgVars, brokerVars, pipeVars, retryVars, bootVars>>
    /\ UNCHANGED callVars

InitCursor ==
    /\ ccPc = "idle"
    /\ ccConn = "none"
    /\ ccCursor = "none"
    /\ ccConnCloses = 0
    /\ ccCursorCloses = 0
    /\ ccCommits = 0
    /\ ccRollbacks = 0
    /\ ccBody = "none"
    /\ ccExc = <<>>
    /\ ccSnap = {}
    /\ ccTx = <<>>
    /\ ccRaised = FALSE
    /\ iaPc = "idle"
    /\ iaArg = None

InitClients == InitRetry /\ InitBoot /\ InitCursor

\* ------------------------------------------------------------- publish
\* Values a message holds: strings and datetime objects.
Str(v) == [type |-> "str", v |-> v]
Datetime(v) == [type |-> "datetime", v |-> v]

\* datetime.isoformat()
isoformat(d) == Str(d.v \o "T00:00:00")

\* The message arguments: objects that are not dicts, and dicts with a task
\* name and, under "published" and under "date", nothing, a string or a datetime.
NonDicts == {[type |-> "str", items |-> <<>>], [type |-> "list", items |-> <<>>]}

FieldValues == {Str("2024-01-01"), Datetime("2024-01-01")}

Dicts ==
    {[type |-> "dict", items |-> f] :
        f \in UNION {[D -> FieldValues \cup {Str("process")}] :
                        D \in {{"task"}, {"task", "published"}, {"task", "date"},
                               {"task", "published", "date"}}}}

PublishMessages ==
    NonDicts \cup {m \in Dicts : m.items["task"] = Str("process")}

\* isinstance(message, dict)
isinstance_dict(message) == message.type = "dict"

\* message.get(key)
get(message, key) ==
    IF key \in DOMAIN message.items THEN message.items[key] ELSE Str("None")

\* elif isinstance(message.get("published"), datetime):
\*     message["published"] = message["published"].isoformat()
convert_published(message) ==
    IF get(message, "published").type = "datetime"
    THEN [message EXCEPT !.items["published"] = isoformat(@)]
    ELSE message

\* json.dumps(message) raises TypeError on a datetime value.
serializable(message) ==
    \A k \in DOMAIN message.items : message.items[k].type = "str"

\* json.dumps(message): the text of the object, each key with its string.
json_dumps(message) == [k \in DOMAIN message.items |-> message.items[k].v]

\* publish with an except clause that logs and returns
publish_except_swallows(err) == "returned"

\* except Exception as e: log; raise CustomException(e, sys)
publish_except(err) == "CustomException"

\* RabbitMQClient.publish(queue_name, message): what is sent with
\* basic_publish and how the call ends; broker_ok = FALSE: basic_publish raises.
publish_call(message, broker_ok) ==
    IF ~isinstance_dict(message)
    THEN [sent |-> <<>>, result |-> publish_except("CustomException")]
    ELSE LET m == convert_published(message)
         IN IF ~serializable(m)
            THEN [sent |-> <<>>, result |-> publish_except("TypeError")]
            ELSE IF ~broker_ok
            THEN [sent |-> <<>>, result |-> publish_except("AMQPError")]
            ELSE [sent |-> <<json_dumps(m)>>, result |-> "returned"]

\* A caller calls client.publish(queue_name, message).
Publish(message, broker_ok) ==
    /\ Len(pubQueue) < MaxPublished
    /\ LET r == publish_call(message, broker_ok)
       IN /\ pubQueue' = IF r.sent = <<>> THEN pubQueue ELSE publish(pubQueue, r.sent[1])
          /\ pubResult' = r.result
    /\ pubBefore' = pubQueue
    /\ pubMsg' = message
    /\ UNCHANGED <<storeVars, callerVars, wgVars, brokerVars, pipeVars, clientVars>>
    /\ UNCHANGED mcVars
    /\ UNCHANGED readVars
    /\ UNCHANGED failedVars
    /\ UNCHANGED siteVars
    /\ UNCHANGED scrVars
    /\ UNCHANGED rcVars
    /\ UNCHANGED opVars

InitPublish ==
    /\ pubQueue = <<>>
    /\ pubBefore = <<>>
    /\ pubMsg = [type |-> "none", items |-> <<>>]
    /\ pubResult = "none"

\* ------------------------------------------------- Mongo client wrappers
\* The two wrappers of a MongoClient: MongoDBOperation (mongo_connector.py)
\* and MongoBaseRepository (mongo/mongo_base.py).
MongoDBOperation == "MongoDBOperation"
MongoBaseRepository == "MongoBaseRepository"
MongoWrappers == {MongoDBOperation, MongoBaseRepository}

\* MongoDBOperation.close_connection:
\*   try: if self.client: self.client.close(); self.client = None;
\*        self._collection = None
\*   except Exception: raise CustomException
\* MongoBaseRepository._close_connection:
\*   try: if self._client: self._client.close()
\*   except Exception: raise CustomException
\*   finally: self._client = None
\* ok = FALSE: the MongoClient's close() raises. MongoBaseRepository keeps no
\* collection on the instance.
close_connection(w, client, collection, ok) ==
    IF w = MongoDBOperation THEN
        IF client = "none"
        THEN [client |-> client, collection |-> collection, result |-> "returned"]
        ELSE IF ok
        THEN [client |-> "none", collection |-> "none", result |-> "returned"]
        ELSE [client |-> client, collection |-> collection, result |-> "CustomException"]
    ELSE
        [client |-> "none", collection |-> collection,
         result |-> IF client # "none" /\ ~ok THEN "CustomException" ELSE "returned"]

\* The wrapper is constructed: _connect creates the MongoClient and pings.
MongoInit(w) ==
    /\ mcCall[w] \in {"none", "close_connection", "__exit__"}
    /\ mcClient' = [mcClient EXCEPT ![w] = "handle"]
    /\ mcCollection' = [mcCollection EXCEPT ![w] = "none"]
    /\ mcServer' = [mcServer EXCEPT ![w] = "open"]
    /\ mcCall' = [mcCall EXCEPT ![w] = "__init__"]
    /\ mcResult' = [mcResult EXCEPT ![w] = "returned"]
    /\ UNCHANGED <<storeVars, callerVars, wgVars, brokerVars, pipeVars, clientVars>>
    /\ UNCHANGED pubVars
    /\ UNCHANGED readVars
    /\ UNCHANGED failedVars
    /\ UNCHANGED siteVars
    /\ UNCHANGED scrVars
    /\ UNCHANGED rcVars
    /\ UNCHANGED opVars

\* _get_collection: MongoDBOperation returns its cached collection or
\* retrieves and caches one; MongoBaseRepository retrieves one per call.
\* Without a client the call raises CustomException; ok = FALSE: the
\* retrieval fails on every attempt.
MongoGetCollection(w, ok) ==
    /\ mcCall[w] # "none"
    /\ IF w = MongoDBOperation /\ mcCollection[w] # "none"
       THEN /\ mcResult' = [mcResult EXCEPT ![w] = "returned"]
            /\ UNCHANGED mcCollection
       ELSE IF mcClient[w] = "none" \/ ~ok
       THEN /\ mcResult' = [mcResult EXCEPT ![w] = "CustomException"]
            /\ UNCHANGED mcCollection
       ELSE /\ mcResult' = [mcResult EXCEPT ![w] = "returned"]
            /\ mcCollection' = [mcCollection EXCEPT
                                   ![w] = IF w = MongoDBOperation THEN "handle" ELSE @]
    /\ mcCall' = [mcCall EXCEPT ![w] = "_get_collection"]
    /\ UNCHANGED <<mcClient, mcServer>>
    /\ UNCHANGED <<storeVars, callerVars, wgVars, brokerVars, pipeVars, clientVars>>
    /\ UNCHANGED pubVars
    /\ UNCHANGED readVars
    /\ UNCHANGED failedVars
    /\ UNCHANGED siteVars
    /\ UNCHANGED scrVars
    /\ UNCHANGED rcVars
    /\ UNCHANGED opVars

\* close_connection is called, directly or by __exit__ on leaving the with
\* block.
MongoClose(w, ok, method) ==
    /\ mcCall[w] # "none"
    /\ LET r == close_connection(w, mcClient[w], mcCollection[w], ok)
       IN /\ mcClient' = [mcClient EXCEPT ![w] = r.client]
          /\ mcCollection' = [mcCollection EXCEPT ![w] = r.collection]
          /\ mcResult' = [mcResult EXCEPT ![w] = r.result]
    /\ mcServer' = [mcServer EXCEPT ![w] = IF mcClient[w] # "none" /\ ok THEN "closed" ELSE @]
    /\ mcCall' = [mcCall EXCEPT ![w] = method]
    /\ UNCHANGED <<storeVars, callerVars, wgVars, brokerVars, pipeVars, clientVars>>
    /\ UNCHANGED pubVars
    /\ UNCHANGED readVars
    /\ UNCHANGED failedVars
    /\ UNCHANGED siteVars
    /\ UNCHANGED scrVars
    /\ UNCHANGED rcVars
    /\ UNCHANGED opVars

\* MongoDBConfig.MAX_RETRIES
MAX_RETRIES == 3

\* The data operations of each wrapper.
DataOps(w) ==
    IF w = MongoDBOperation
    THEN {"insert_data", "is_article_link_exists"}
    ELSE {"insert_data", "run_query", "is_article_link_exists",
          "get_last_checkpoint", "update_last_checkpoint"}

\* _get_collection on a wrapper whose client is None, after `failed` failed
\* attempts: each attempt raises CustomException("MongoDB client is not
\* initialized") inside the try block of the loop.
RECURSIVE get_collection_without_client(_, _)
get_collection_without_client(failed, max) ==
    LET head == loop_head(GetCollection, failed, max)
    IN IF head.pc # "try"
       THEN [attempts |-> failed, sleeps |-> <<>>, result |-> head.result]
       ELSE LET h == on_error(GetCollection, "CustomException", failed + 1, max, 0)
            IN IF h.pc = "loop"
               THEN LET rest == get_collection_without_client(failed + 1, max)
                    IN [attempts |-> rest.attempts, sleeps |-> h.sleep \o rest.sleeps,
                        result |-> rest.result]
               ELSE [attempts |-> failed + 1, sleeps |-> h.sleep, result |-> h.result]

\* The except clause of a data operation: run_query catches PyMongoError
\* only, the others catch Exception; what is caught is raised as
\* CustomException.
data_op_except(op, err) ==
    IF op = "run_query" /\ err \notin PyMongoErrors THEN err ELSE "CustomException"

\* A data operation is called on the wrapper, which is configured for max
\* attempts; ok = FALSE: the database call fails; date: the argument of
\* update_last_checkpoint. The operation asks _get_collection for its
\* collection first. A None it gets back raises AttributeError at the first
\* use. Inputs the call does not read are kept at one value.
MongoDataOp(w, op, max, ok, date) ==
    /\ mcCall[w] # "none"
    /\ op \in DataOps(w)
    /\ mcClient[w] # "none" => max = MAX_RETRIES
    /\ mcClient[w] = "none" => ok
    /\ op # "update_last_checkpoint" => date = MaxDate
    /\ Len(mongoData) < MaxWrites
    /\ LET cached == w = MongoDBOperation /\ mcCollection[w] # "none"
           lookup  == IF cached \/ mcClient[w] # "none"
                      THEN [attempts |-> IF cached THEN 0 ELSE 1, sleeps |-> <<>>,
                            result |-> "collection"]
                      ELSE get_collection_without_client(0, max)
           reached == lookup.result = "collection"
           done    == reached /\ ok /\ mcServer[w] = "open"
           result  == IF done THEN "returned"
                      ELSE IF reached THEN data_op_except(op, "OperationFailure")
                      ELSE IF lookup.result = "None" THEN data_op_except(op, "AttributeError")
                      ELSE data_op_except(op, lookup.result)
       IN /\ mongoData' = IF done /\ op = "insert_data"
                          THEN insert_data(mongoData, <<[url |-> "a", title |-> "t1"]>>)
                          ELSE mongoData
          /\ checkpoint' = IF done /\ op = "update_last_checkpoint"
                           THEN update_last_checkpoint(checkpoint, nextId, date)
                           ELSE checkpoint
          /\ nextId' = IF done /\ op = "update_last_checkpoint" /\ checkpoint = {}
                       THEN nextId + 1 ELSE nextId
          /\ mcOp' = [calls |-> 1, w |-> w, op |-> op, max |-> max,
                      closed |-> mcServer[w] = "closed",
                      attempts |-> lookup.attempts, sleeps |-> lookup.sleeps,
                      dbCalls |-> IF reached THEN 1 ELSE 0,
                      result |-> result,
                      changed |-> <<mongoData', checkpoint'>> # <<mongoData, checkpoint>>]
          /\ mcCollection' = [mcCollection EXCEPT
                                 ![w] = IF w = MongoDBOperation /\ reached /\ ~cached /\ done
                                        THEN "handle" ELSE @]
    /\ UNCHANGED <<mcClient, mcServer, mcCall, mcResult>>
    /\ UNCHANGED <<callerVars, wgVars, brokerVars, clientVars>>
    /\ UNCHANGED <<taskQueue, prodVars, consVars, pgTable, failedJobs, failedTasks,
                   crashes, apiResult>>
    /\ UNCHANGED <<pubVars, readVars, failedVars, siteVars, scrVars, rcVars>>

InitMongoOp ==
    mcOp = [calls |-> 0, w |-> "none", op |-> "none", max |-> 0, closed |-> FALSE,
            attempts |-> 0, sleeps |-> <<>>, dbCalls |-> 0, result |-> "none",
            changed |-> FALSE]

InitMongoClients ==
    /\ mcClient = [w \in MongoWrappers |-> "none"]
    /\ mcCollection = [w \in MongoWrappers |-> "none"]
    /\ mcServer = [w \in MongoWrappers |-> "none"]
    /\ mcCall = [w \in MongoWrappers |-> "none"]
    /\ mcResult = [w \in MongoWrappers |-> "none"]

InitCalls == InitPublish /\ InitMongoClients /\ InitRead /\ InitFailedRead /\ InitSite /\ InitScraper /\ InitRabbitClient /\ InitMongoOp


InitAll == InitStore /\ InitCallers /\ InitBroker /\ InitWG /\ InitPipe /\ InitClients /\ InitCalls

InitCkpt == InitAll

InitWorkGen == InitAll

NextWorkGen ==
    \/ Tick
    \/ WGStart
    \/ WGPublish
    \/ WGPublishFail
    \/ WGAdvance
    \/ WGCrash

SpecWG == InitWorkGen /\ [][NextWorkGen]_vars

InitProd == InitAll

NextProd ==
    \/ JobEnqueue
    \/ \E p \in Producers :
          \/ PDeliver(p)
          \/ PDiscover(p)
          \/ PDiscoverFail(p)
          \/ PCheck(p)
          \/ PPublish(p)
          \/ PAck(p)
          \/ PCrash(p)
    \/ CDeliver(Consumer)
    \/ CBegin(Consumer)
    \/ CFetch(Consumer)
    \/ CWriteMongo(Consumer)
    \/ CWritePostgres(Consumer)
    \/ CAck(Consumer)

SpecProd == InitProd /\ [][NextProd]_vars

InitJobs == InitAll

\* One step of a Producer worker's handler.
PStep(p) ==
    \/ PDeliver(p)
    \/ PDiscover(p)
    \/ PDiscoverFail(p)
    \/ PCheck(p)
    \/ PPublish(p)
    \/ PAck(p)

\* The Producer workers on the job queue, no Consumer running.
NextJobs ==
    \/ JobEnqueue
    \/ \E p \in Producers : PStep(p) \/ PCrash(p)

\* A running Producer worker takes its next step.
FairJobs == \A p \in Producers : WF_vars(PStep(p))

SpecJobs == InitJobs /\ [][NextJobs]_vars /\ FairJobs

InitCons == InitAll

InitRetrySpec == InitAll

NextRetry ==
    \/ \E op \in RetriedOps, max \in 0..MaxRetries : RCall(op, max)
    \/ RSucceed
    \/ \E err \in AnyError : RError(err)

SpecRetry == InitRetrySpec /\ [][NextRetry]_vars

InitPublishSpec == InitAll

NextPublish ==
    \E message \in PublishMessages, broker_ok \in BOOLEAN : Publish(message, broker_ok)

SpecPublish == InitPublishSpec /\ [][NextPublish]_vars

InitMongoCloseSpec == InitAll

NextMongoClose ==
    \E w \in MongoWrappers :
        \/ MongoInit(w)
        \/ \E ok \in BOOLEAN : MongoGetCollection(w, ok)
        \/ \E ok \in BOOLEAN, method \in {"close_connection", "__exit__"} :
              MongoClose(w, ok, method)

SpecMongoClose == InitMongoCloseSpec /\ [][NextMongoClose]_vars

InitReadSpec == InitAll

NextRead ==
    \/ \E w \in Callers : UpdateBegin(w) \/ UpdateFind(w) \/ UpdateWrite(w)
    \/ GetLastCheckpoint

SpecRead == InitReadSpec /\ [][NextRead]_vars

InitFailedJobs == InitAll

\* One Producer worker recording failed jobs, the cursor advancing, and
\* callers of get_failed_jobs.
NextFailedJobs ==
    \/ JobEnqueue
    \/ PStep("p1")
    \/ \E date \in Dates : AdvanceCursor(date)
    \/ GetFailedJobs

SpecFailedJobs == InitFailedJobs /\ [][NextFailedJobs]_vars

InitSiteSpec == InitAll

NextSite ==
    \/ \E retries \in SiteAttempts : OpenSite(retries)
    \/ \E outcome \in GetOutcomes : OsGet(outcome)
    \/ \E ok \in BOOLEAN : OsQuit(ok)
    \/ \E outcome \in InitDriverOutcomes : OsInitDriver(outcome)

SpecSite == InitSiteSpec /\ [][NextSite]_vars

InitScraperSpec == InitAll

NextScraper ==
    \/ \E retries \in SiteAttempts : ScrCall(retries)
    \/ \E outcome \in InitDriverOutcomes : ScrEnter(outcome)
    \/ \E delay \in random_delay(MIN_HUMAN_DELAY, MAX_HUMAN_DELAY) : ScrDelay(delay)
    \/ ScrOpen
    \/ \E outcome \in GetOutcomes : OsGet(outcome)
    \/ \E ok \in BOOLEAN : OsQuit(ok)
    \/ \E outcome \in InitDriverOutcomes : OsInitDriver(outcome)
    \/ \E page_ok \in BOOLEAN, total_pages \in 1..MaxPages : ScrOpened(page_ok, total_pages)
    \/ \E quit_ok \in BOOLEAN : ScrExit(quit_ok)

SpecScraper == InitScraperSpec /\ [][NextScraper]_vars

InitRabbitClose == InitAll

NextRabbitClose ==
    \/ RcNew
    \/ RcConsume
    \/ RcConsumeStep
    \/ \E cause \in StopCauses : RcStop(cause)
    \/ \E via \in {"close", "exit"} : RcCloseCall(via)
    \/ \E ok, closed \in BOOLEAN : RcChannelClose(ok, closed)
    \/ \E ok, closed \in BOOLEAN : RcConnectionClose(ok, closed)

SpecRabbitClose == InitRabbitClose /\ [][NextRabbitClose]_vars

InitReadBack == InitAll

\* Overlapping calls of update_last_checkpoint, and a call that runs alone
\* and is followed by a read.
NextReadBack ==
    \/ \E w \in Callers : UpdateBegin(w) \/ UpdateFind(w) \/ UpdateWrite(w)
    \/ \E date \in Dates : UpdateThenRead(date)

SpecReadBack == InitReadBack /\ [][NextReadBack]_vars

InitMongoOps == InitAll

\* The wrappers constructed, used and closed.
NextMongoOps ==
    \E w \in MongoWrappers :
        \/ MongoInit(w)
        \/ \E ok \in BOOLEAN, method \in {"close_connection", "__exit__"} :
              MongoClose(w, ok, method)
        \/ \E op \in DataOps(w), max \in 0..MaxRetries, ok \in BOOLEAN, date \in Dates :
              MongoDataOp(w, op, max, ok, date)

SpecMongoOps == InitMongoOps /\ [][NextMongoOps]_vars

InitCursorSpec == InitAll

NextCursor ==
    \/ CcEnter
    \/ \E ok \in BOOLEAN : CcGetConnection(ok)
    \/ \E ok \in BOOLEAN : CcCursor(ok)
    \/ \E ok \in BOOLEAN, k \in Keys, t \in Titles : CcBody(ok, [url |-> k, title |-> t])
    \/ \E ok \in BOOLEAN : CcCommit(ok)
    \/ \E ok \in BOOLEAN : CcRollback(ok)
    \/ \E ok \in BOOLEAN : CcCursorClose(ok)
    \/ \E ok \in BOOLEAN : CcConnClose(ok)
    \/ \E valid \in BOOLEAN, k \in Keys, t \in Titles :
          InsertArticleCall(valid, [url |-> k, title |-> t])
    \/ InsertArticleEnd

SpecCursor == InitCursorSpec /\ [][NextCursor]_vars

InitStartup == InitAll

NextStartup ==
    \/ \E comp \in Components : BootStart(comp)
    \/ \E max \in 0..MaxRetries : BootConnect(max)
    \/ RSucceed
    \/ \E err \in AnyError : RError(err)
    \/ BootConnected
    \/ BootAbort
    \/ BootWork
    \/ BootStop

SpecStartup == InitStartup /\ [][NextStartup]_vars

\* One step of a Consumer worker's handler.
CStep(c) ==
    \/ CBegin(c)
    \/ CFetch(c)
    \/ CFail(c)
    \/ CWriteMongo(c)
    \/ CWritePostgres(c)
    \/ CAck(c)

NextCons ==
    \/ TaskEnqueue
    \/ \E c \in Consumers :
          \/ CDeliver(c)
          \/ CStep(c)
          \/ CInterrupt(c)
          \/ CStart(c)

SpecCons == InitCons /\ [][NextCons]_vars

InitDrain == InitAll

\* A single Consumer worker on the task queue.
NextDrain ==
    \/ TaskEnqueue
    \/ CDeliver(Consumer)
    \/ CStep(Consumer)
    \/ CInterrupt(Consumer)
    \/ CStart(Consumer)

\* The broker delivers whenever it can, a running worker takes its next step,
\* and a stopped worker is started again.
FairDrain ==
    /\ WF_vars(CDeliver(Consumer))
    /\ WF_vars(CStep(Consumer))
    /\ WF_vars(CStart(Consumer))

SpecDrain == InitDrain /\ [][NextDrain]_vars /\ FairDrain

InitOwner == InitAll

\* The cursor advancing next to a Producer and a Consumer worker.
NextOwner ==
    \/ \E date \in Dates : AdvanceCursor(date)
    \/ JobEnqueue
    \/ PStep("p1")
    \/ CDeliver(Consumer)
    \/ CStep(Consumer)

SpecOwner == InitOwner /\ [][NextOwner]_vars

InitStores == InitAll

NextStores == StoreInsertData \/ StoreInsertArticle

SpecStore == InitStores /\ [][NextStores]_vars

NextCkpt ==
    \E w \in Callers : UpdateBegin(w) \/ UpdateFind(w) \/ UpdateWrite(w)

SpecCkpt == InitCkpt /\ [][NextCkpt]_vars

\* ------------------------------------------------------------------ claims
SeqRange(s) == {s[i] : i \in 1..Len(s)}

\* C1: over every sequence of update_last_checkpoint calls the date read by
\* get_last_checkpoint is non-decreasing: no call leaves it earlier than before.
C1_CursorNonDecreasing ==
    [][get_last_checkpoint(checkpoint') >= get_last_checkpoint(checkpoint)]_vars

\* C2: when update_last_checkpoint calls overlap, once all have returned the
\* stored cursor is the latest date any of them advanced to.
C2_CursorEndsAtLatest ==
    ((\A w \in Callers : cpc[w] = "idle") /\ advanced # <<>>)
        => get_last_checkpoint(checkpoint) = SetMax(SeqRange(advanced))

\* C3: after any interleaving of update_last_checkpoint calls the collection
\* holds exactly one checkpoint row once one has been written.
C3_SingleCheckpointRow ==
    /\ Cardinality(checkpoint) <= 1
    /\ (advanced # <<>> => Cardinality(checkpoint) = 1)

\* C4: an invocation that returns without a publish failure has published
\* exactly one job per date, ascending, from cursor + 1 (the start date when no
\* checkpoint existed) through today, and the cursor then equals today.
C4_JobsThroughToday ==
    (wgPc = "done" /\ wgFailedAt = None) =>
        /\ RunJobs = DateSeq(FirstDate(wgCursor), wgToday)
        /\ \A i \in 1..Len(RunJobs) : RunJobs[i] <= wgToday
        /\ (RunJobs # <<>> => get_last_checkpoint(checkpoint) = wgToday)

C4_Witness ==
    /\ wgPc = "done" /\ wgFailedAt = None
    /\ wgCursor = 1 /\ RunJobs = <<2, 3>>
    /\ get_last_checkpoint(checkpoint) = 3

\* C5: when publishing date D failed, the invocation leaves the cursor before
\* D, at the last date it published (D - 1), so the next one starts at D.
C5_FailedDateNotPassed ==
    (wgPc = "done" /\ wgFailedAt # None) =>
        /\ get_last_checkpoint(checkpoint) < wgFailedAt
        /\ (RunJobs # <<>> => get_last_checkpoint(checkpoint) = RunJobs[Len(RunJobs)])
        /\ FirstDate(get_last_checkpoint(checkpoint)) = wgFailedAt

C5_Witness ==
    /\ wgPc = "done" /\ wgFailedAt = 3
    /\ RunJobs = <<2>> /\ get_last_checkpoint(checkpoint) = 2

\* C6: every date from the start date through the stored cursor has a job on
\* the job queue (was enqueued at least once).
C6_NoDateSkipped ==
    \A d \in StartDate..get_last_checkpoint(checkpoint) :
        \E i \in 1..Len(jobQueue) : jobQueue[i].body = d

C6_Witness ==
    /\ get_last_checkpoint(checkpoint) = 3
    /\ wgRuns >= 2

\* C7: the invocation that follows one that crashed after enqueuing D1..Dk
\* starts at D1 and enqueues consecutive ascending dates, each once; when it
\* returns without a publish failure it has enqueued all of D1..Dk.
C7_CrashRecovery ==
    (wgPc \in {"publishing", "done"} /\ wgLost # <<>>) =>
        /\ \A i \in 1..Len(RunJobs) : RunJobs[i] = wgLost[1] + i - 1
        /\ (wgPc = "done" /\ wgFailedAt = None) =>
              /\ Len(RunJobs) >= Len(wgLost)
              /\ \A i \in 1..Len(wgLost) : RunJobs[i] = wgLost[i]

C7_Witness ==
    /\ wgPc = "done" /\ wgFailedAt = None
    /\ wgLost = <<2, 3>> /\ RunJobs = <<2, 3>>

TaskCount(k) == Cardinality({i \in 1..Len(taskQueue) : taskQueue[i].body = k})

DocCount(k) == Cardinality({i \in 1..Len(mongoData) : mongoData[i].url = k})

RowCount(k) == Cardinality({r \in pgTable : r.url = k})

\* C9: each backend holds at most one Stored Record per item_key, whatever
\* writes were repeated.
C9_OneRecordPerKey ==
    \A k \in Keys : DocCount(k) <= 1 /\ RowCount(k) <= 1

\* C10: a job is acknowledged only when each identifier discovered for its
\* date has been published as a Task or is stored, or the job has a Failure
\* Record.
C10_AckAfterItemsHandled ==
    \A i \in 1..Len(jobQueue) :
        jobQueue[i].st = "acked" =>
            \/ \E f \in 1..Len(failedJobs) : failedJobs[f] = jobQueue[i].body
            \/ \A k \in SeqRange(Discover(jobQueue[i].body)) :
                  k \in StoredKeys(mongoData) \/ TaskCount(k) >= 1

C10_Witness ==
    \E i \in 1..Len(jobQueue) :
        /\ jobQueue[i].st = "acked" /\ jobQueue[i].body = 2
        /\ failedJobs = <<>>
        /\ "a" \in StoredKeys(mongoData) /\ TaskCount("b") = 1

\* A task's record is in both stores, or the task has a Failure Record.
TaskHandled(i) ==
    \/ /\ taskQueue[i].body \in StoredKeys(mongoData)
       /\ \E r \in pgTable : r.url = taskQueue[i].body
    \/ \E f \in 1..Len(failedTasks) : failedTasks[f].delivery = i

\* C11: in no reachable state is a task acknowledged while its record is
\* missing from the document store or from the relational store, unless a
\* Failure Record of that task was written.
C11_AckAfterBothWrites ==
    \A i \in 1..Len(taskQueue) : taskQueue[i].st = "acked" => TaskHandled(i)

\* A redelivered task: the first handling was interrupted after the document
\* store write, the second one wrote both stores and acknowledged.
C11_Witness ==
    \E i \in 1..Len(taskQueue) :
        /\ taskQueue[i].st = "acked"
        /\ failedTasks = <<>>
        /\ crashes = 1
        /\ DocCount(taskQueue[i].body) = 2
        /\ RowCount(taskQueue[i].body) = 1

\* C12: every task on the task queue is eventually acknowledged with its
\* record stored or its Failure Record written, also when a task ahead of it
\* fails until the attempt ceiling.
C12_QueueDrains ==
    \A i \in 1..MaxTasks :
        (Len(taskQueue) >= i) ~>
            (Len(taskQueue) >= i /\ taskQueue[i].st = "acked" /\ TaskHandled(i))

\* The first task failed until the ceiling and has its Failure Record; the
\* task behind it was handled by the same worker and is stored.
C12_Witness ==
    /\ Len(taskQueue) = 2
    /\ taskQueue[1].st = "acked" /\ taskQueue[1].owner = "c1"
    /\ taskQueue[2].st = "acked" /\ taskQueue[2].owner = "c1"
    /\ \E f \in 1..Len(failedTasks) : failedTasks[f].delivery = 1
    /\ \A f \in 1..Len(failedTasks) : failedTasks[f].delivery # 2
    /\ RowCount(taskQueue[2].body) = 1

AckedJobs == {i \in 1..Len(jobQueue) : jobQueue[i].st = "acked"}

TypedFailures == {"CustomException", "RetryError"}

\* C16: _get_collection, RabbitMQ _connect and get_connection make at most
\* max_attempts attempts, stop at the first success, raise a typed failure
\* when every attempt failed, and never return normally without a usable
\* result, whatever the configured max_attempts.
C16_RetryBounded ==
    rop \in {GetCollection, RabbitConnect, PgGetConnection} =>
        /\ rattempt <= rmax
        /\ Len(rerrs) <= rattempt
        /\ (rpc = "returned" => rresult = "usable" /\ Len(rerrs) = rattempt - 1)
        /\ (rpc = "raised" /\ Len(rerrs) = rmax => rresult \in TypedFailures)

\* The unreachable-server errors of the three libraries.
Transient(err) == err \in {"ConnectionFailure", "AMQPConnectionError", "OperationalError"}

\* The step is an attempt that failed.
AttemptFailed == rpc = "try" /\ Len(rerrs') = Len(rerrs) + 1

\* The failed attempt is followed by a further attempt.
Retried == rpc' = "try" /\ rattempt' = rattempt + 1

C18_ExponentialWaits ==
    rop \in {GetCollection, RabbitConnect, PgGetConnection} =>
        /\ \A n \in 1..Len(rsleeps) :
              rsleeps[n].wait = rsleeps[1].wait * Pow(2, n - 1)
        /\ (rpc = "try" => Len(rsleeps) = rattempt - 1)

\* C18 (amended): _get_collection waits RETRY_DELAY * 2^(n-1) without jitter
\* between attempts; RabbitMQ _connect waits RETRY_BACKOFF_FACTOR^n plus a
\* jitter after every AMQPConnectionError, the last one included;
\* get_connection waits a constant 2 seconds between attempts; Mongo _connect
\* never waits.
C18_WaitsPerClient ==
    /\ rpc = "try" => Len(rsleeps) = rattempt - 1
    /\ rop = GetCollection =>
          \A n \in 1..Len(rsleeps) :
              rsleeps[n] = [wait |-> RETRY_DELAY * Pow(2, n - 1), jitter |-> 0]
    /\ rop = RabbitConnect =>
          /\ \A n \in 1..Len(rsleeps) :
                rsleeps[n].wait = Pow(RETRY_BACKOFF_FACTOR, n) /\ rsleeps[n].jitter \in Jitters
          /\ Len(rsleeps) =
                Cardinality({n \in 1..Len(rerrs) : rerrs[n] = "AMQPConnectionError"})
    /\ rop = PgGetConnection =>
          \A n \in 1..Len(rsleeps) : rsleeps[n] = [wait |-> wait_fixed, jitter |-> 0]
    /\ rop = MongoConnect => rsleeps = <<>>

\* get_connection before its third attempt: it waited 2 and 2 seconds.
C18_Witness ==
    /\ rop = PgGetConnection /\ rpc = "try" /\ rattempt = 3
    /\ rsleeps = <<[wait |-> 2, jitter |-> 0], [wait |-> 2, jitter |-> 0]>>

\* C19: a component whose broker or database connection could not be
\* established has aborted its start with the connect call's exception and
\* has written nothing: checkpoint, queues, Stored Records and Failure Records
\* are as they were when it started; a component runs only with every
\* connection established.
C19_AbortWritesNothing ==
    /\ boot \in {"connecting", "aborted"} => Persisted = bootSnap
    /\ boot = "aborted" => (rpc = "raised" /\ rresult # "usable")
    /\ boot \in {"running", "stopped"} =>
          /\ Len(bootResults) = Len(StartupClients)
          /\ \A n \in 1..Len(bootResults) : bootResults[n] = "usable"

\* After earlier runs had written, a start connected to the broker and then
\* failed to reach MongoDB.
C19_Witness ==
    /\ boot = "aborted"
    /\ rop = MongoConnect /\ rerrs = <<"ConnectionFailure">>
    /\ bootResults = <<"usable">>
    /\ jobQueue # <<>> /\ mongoData # <<>>

\* C20: when connection_cursor is left, on whatever path, the connection it
\* obtained has had close() called exactly once, and so has the cursor it
\* obtained.
C20_ClosedOnEveryExit ==
    ccPc = "done" =>
        /\ (ccConn # "none" => ccConnCloses = 1)
        /\ (ccCursor # "none" => ccCursorCloses = 1)

\* The exception that leaves the with statement comes from the call that
\* raised last.
Leaving == IF ccExc = <<>> THEN "none" ELSE ccExc[Len(ccExc)]

C22_FailedInsertLeavesTable ==
    (iaPc # "called" /\ iaPc # "idle" /\ ccBody = "raised") =>
        /\ iaPc = "CustomException"
        /\ ccRollbacks = 1 /\ ccCommits = 0
        /\ pgTable = ccSnap

C22_Witness ==
    /\ iaPc = "CustomException" /\ ccBody = "raised" /\ ccRollbacks = 1
    /\ pgTable # {} /\ pgTable = ccSnap
    /\ \A r \in pgTable : r.url # iaArg.url

\* The message holds a datetime object under some key.
HasDatetime(message) ==
    \E k \in DOMAIN message.items : message.items[k].type = "datetime"

\* C23: publish called with a message that is not a dict raises
\* CustomException and sends nothing: the queue is as it was before the call.
C23_NonDictSendsNothing ==
    (pubResult # "none" /\ ~isinstance_dict(pubMsg)) =>
        /\ pubResult = "CustomException"
        /\ pubQueue = pubBefore

C23_Witness ==
    /\ pubMsg.type = "str"
    /\ pubResult = "CustomException"
    /\ pubQueue # <<>> /\ pubQueue = pubBefore

\* C24: a dict message that holds datetime values is published, the broker
\* accepting it, with each datetime as its ISO format string.
C24_DatetimesConverted ==
    (pubResult # "none" /\ isinstance_dict(pubMsg) /\ HasDatetime(pubMsg)) =>
        \/ pubResult = "CustomException" /\ pubQueue = pubBefore
              /\ serializable(convert_published(pubMsg))
        \/ /\ pubResult = "returned"
           /\ Len(pubQueue) = Len(pubBefore) + 1
           /\ LET body == pubQueue[Len(pubQueue)].body
              IN \A k \in DOMAIN pubMsg.items :
                    body[k] = IF pubMsg.items[k].type = "datetime"
                              THEN isoformat(pubMsg.items[k]).v
                              ELSE pubMsg.items[k].v

\* C25: constructing a RabbitMQClient ends in one of two ways: it returns
\* with connection and channel set, or it raises CustomException.
C25_ConnectedOrCustomException ==
    (rop = RabbitConnect /\ rpc \in {"returned", "raised"}) =>
        \/ rpc = "returned" /\ rconnection = "open" /\ rchannel = "open"
        \/ rpc = "raised" /\ rresult = "CustomException"

\* C26: after close_connection has been called on a Mongo client wrapper,
\* directly or on leaving the with block, its client is None and its cached
\* collection is None, whether the call returned or raised.
C26_NoStaleHandle ==
    \A w \in MongoWrappers :
        mcCall[w] \in {"close_connection", "__exit__"} =>
            mcClient[w] = "none" /\ mcCollection[w] = "none"

StoredCursorIs(d) ==
    /\ \E r \in checkpoint : r.last_processed_date = d
    /\ \A r \in checkpoint : r.last_processed_date <= d

\* C28: a Work Generator invocation that starts with the stored cursor equal
\* to today publishes no job and leaves the checkpoint collection unchanged,
\* in its first step and in every step up to its end.
C28_NoOpWhenCursorIsToday ==
    [][/\ (wgPc # "publishing" /\ wgPc' = "publishing" /\ StoredCursorIs(today)) =>
             (jobQueue' = jobQueue /\ checkpoint' = checkpoint)
       /\ (wgPc = "publishing" /\ StoredCursorIs(wgToday)) =>
             (jobQueue' = jobQueue /\ checkpoint' = checkpoint)
      ]_vars

\* An invocation that found the cursor at today has ended, with the jobs of
\* the earlier invocation still the only ones on the queue.
C28_Witness ==
    /\ wgPc = "done" /\ wgRuns >= 2
    /\ wgCursor = wgToday /\ StoredCursorIs(wgToday)
    /\ RunJobs = <<>> /\ jobQueue # <<>>

\* The sequence holds each date as often as the Failure Records do.
SameDates(dates, records) ==
    /\ Len(dates) = Len(records)
    /\ \A d \in Dates :
          Cardinality({i \in 1..Len(dates) : dates[i] = d})
             = Cardinality({i \in 1..Len(records) : records[i] = d})

\* C29: get_failed_jobs returns None when no Failure Record of a job exists
\* and otherwise the dates of all of them in ascending order, a job the
\* Producer recorded among them, whatever the checkpoint collection holds.
C29_FailedJobDatesReturned ==
    failedRead.calls > 0 =>
        IF failedRead.failed = <<>>
        THEN failedRead.out.result = "None"
        ELSE /\ failedRead.out.result = "returned"
             /\ SameDates(failedRead.out.dates, failedRead.failed)
             /\ \A i, j \in 1..Len(failedRead.out.dates) :
                   i < j => failedRead.out.dates[i] <= failedRead.out.dates[j]

\* C30: a call of open_site that returns has a driver that loaded the target
\* URL as its value; after RETRY_ATTEMPTS consecutive WebDriverException
\* failures the call does not return normally.
C30_FailedLoadSignalled ==
    /\ osPc = "returned" => (osResult = "driver" /\ osDriver \in osLoaded)
    /\ (osPc # "get" /\ osFailures = osRetries) => osPc = "raised"

\* C31: every page load of the scraper (each open_site call of
\* run_archive_scraper_selenium_bot and of get_article_links) after the first
\* one is preceded by a randomized delay taken since the page load before it.
C31_LoadsRateLimited ==
    \A i \in 2..Len(scrLoads) : scrLoads[i]

\* How often quit() was called on a session during the call.
QuitCount(session) ==
    Cardinality({i \in 1..Len(scrQuits) : scrQuits[i] = session})

\* C37: when run_archive_scraper_selenium_bot has returned or raised, every
\* WebDriver session started during the call was quit, and exactly once.
C37_SessionsQuitOnce ==
    scrPc \in {"returned", "raised"} =>
        \A session \in scrStarted : QuitCount(session) = 1

\* C32: every step of a Producer or of a Consumer (existence check, task
\* publish, store write, failure record, acknowledgment) leaves the rows of
\* the checkpoint collection as they were.
C32_CheckpointOwnedByWG ==
    [][((\E p \in Producers : PStep(p)) \/ (\E c \in Consumers : CStep(c)))
          => checkpoint' = checkpoint]_vars

\* The cursor is stored, a job was acknowledged and a document was written.
C32_Witness ==
    /\ checkpoint # {}
    /\ AckedJobs # {}
    /\ mongoData # <<>>

\* A call of consume or close on the client has ended.
RcEnded == rcPc \in {"returned", "raised"}

\* C33: when consume has stopped, close() was called before it returned or
\* raised; it returned normally after an interrupt and raised CustomException
\* after every other failure; the channel and the connection are closed.
C33_ConsumeStopsClosed ==
    (rcVia = "consume" /\ RcEnded) =>
        /\ rcCloseCalls >= 1
        /\ IF rcCause = "KeyboardInterrupt"
           THEN rcPc = "returned"
           ELSE rcPc = "raised" /\ rcResult = "CustomException"
        /\ rcChannel = "closed"
        /\ rcConnection = "closed"

\* C34: after close() was called, directly or by leaving the with-block, the
\* channel and the connection are closed, whether close returned or raised.
C34_AllReleased ==
    (rcVia \in {"close", "exit"} /\ RcEnded) =>
        /\ rcChannel = "closed"
        /\ rcConnection = "closed"

\* C35: a get_last_checkpoint issued right after update_last_checkpoint(d)
\* has returned, with no write in between, returns d, whatever rows earlier
\* overlapping calls left in the collection.
C35_ReadsLastWrite ==
    [][(\E date \in Dates : UpdateThenRead(date))
          => lastRead'.date = advanced'[Len(advanced')]]_vars

\* A data operation was called on a wrapper whose MongoClient had been closed.
OnClosedWrapper == mcOp.calls > 0 /\ mcOp.closed

\* C36 as stated: every data operation on a closed wrapper raises
\* CustomException at its first attempt, without sleeping, without a database
\* call and without changing stored data.
C36_ClosedWrapperRaises ==
    OnClosedWrapper =>
        /\ mcOp.result = "CustomException"
        /\ mcOp.attempts <= 1
        /\ mcOp.sleeps = <<>>
        /\ mcOp.dbCalls = 0
        /\ ~mcOp.changed

\* What the code guarantees of C36: with MAX_RETRIES >= 1 the operation raises CustomException at
\* its first attempt; with MAX_RETRIES = 0 no attempt is made and run_query
\* raises AttributeError, the others CustomException. It never sleeps, never
\* calls the database and never changes stored data.
C36_ClosedWrapperFailsAtOnce ==
    OnClosedWrapper =>
        /\ mcOp.sleeps = <<>>
        /\ mcOp.dbCalls = 0
        /\ ~mcOp.changed
        /\ IF mcOp.max >= 1
           THEN mcOp.attempts = 1 /\ mcOp.result = "CustomException"
           ELSE /\ mcOp.attempts = 0
                /\ mcOp.result = IF mcOp.op = "run_query" THEN "AttributeError"
                                 ELSE "CustomException"

\* update_last_checkpoint was called on a closed wrapper that is configured
\* for several attempts, with a cursor stored.
C36_Witness ==
    /\ OnClosedWrapper
    /\ mcOp.op = "update_last_checkpoint"
    /\ mcOp.max >= 2
    /\ checkpoint # {}

====
